---- MODULE Spec2Model ----
(***************************************************************************)
(* The DFM rule engine of tactile: analyze_dfm (agent/cad_tool/analyze/    *)
(* analyzer.py) and the analyzers it calls (GeometryAnalyzer,              *)
(* SurfaceAnalyzer, AssemblyAnalyzer), as a state machine over the answers *)
(* of the geometry kernel.                                                 *)
(*                                                                         *)
(* Units.  The code computes in floats; the model uses integers:           *)
(*   lengths        micrometres           (0.8 mm = 800, epsilon 0.01 = 10)*)
(*   face areas     1e-3 mm^2             (0.25 mm^2 = 250)                *)
(*   volumes        1e-3 mm^3                                              *)
(*   dot products   1e-6                  (-0.05 = -50000, 1e-6 = 1)       *)
(*   angles         millidegrees          (45 degrees = 45000)             *)
(* The kernel (CadQuery/OCCT) is not part of the repository: a workplane   *)
(* is the record of the answers it gives to the queries the code makes,    *)
(* and a query listed in a shape's `fails` raises when it is made.         *)
(***************************************************************************)
EXTENDS Integers, Sequences, FiniteSets, TLC

VARIABLES workplane, process, pc, issues, ran,
          angle_in, rec_out,
          oh_faces, oh_max, oh_out, oh_pc,
          geo_fn, geo_in, geo_arg, geo_out, geo_pc,
          ex_in, ex_pc, worker, result_queue, error_queue, temp_step, in_time, timed_out, ex_ret,
          ag_in, ag_pc, iteration, llm_calls, message, seen

vars == <<workplane, process, pc, issues, ran, angle_in, rec_out, oh_faces, oh_max, oh_out, oh_pc,
          geo_fn, geo_in, geo_arg, geo_out, geo_pc,
          ex_in, ex_pc, worker, result_queue, error_queue, temp_step, in_time, timed_out, ex_ret,
          ag_in, ag_pc, iteration, llm_calls, message, seen>>

ag_vars == <<ag_in, ag_pc, iteration, llm_calls, message, seen>>

ex_vars == <<ex_in, ex_pc, worker, result_queue, error_queue, temp_step, in_time, timed_out, ex_ret>>

dfm_vars == <<workplane, process, pc, issues, ran>>

draft_vars == <<angle_in, rec_out>>

oh_vars == <<oh_faces, oh_max, oh_out, oh_pc>>

geo_vars == <<geo_fn, geo_in, geo_arg, geo_out, geo_pc>>

\* ------------------------------------------------------------------ bounds
\* Longest generated face list of a workplane.
MaxFaces == 2
\* Most solids of a generated assembly.
MaxSolids == 2
\* Longest generated edge list of a workplane.
MaxEdges == 1
\* Longest face list given to the overhang analysis on its own.
MaxOhFaces == 2
\* The draft angles given to _draft_recommendation on its own run from
\* -MaxDraftSteps to 3 * MaxDraftSteps steps of 0.05 degrees.
MaxDraftSteps == 20

\* Longest face list of a workplane handed to one analyzer on its own.
MaxGeoFaces == 2

\* Longest face list handed to analyze_wall_thickness on its own.
MaxThFaces == 3

\* Most solids of an assembly given to the assembly analyzers on their own.
MaxGeoSolids == 3

\* Most tool calls in one message of the LLM.
MaxToolCalls == 2

\* ------------------------------------------------------------- arithmetic
Abs(x) == IF x < 0 THEN -x ELSE x

Min2(a, b) == IF a < b THEN a ELSE b

Max2(a, b) == IF a > b THEN a ELSE b

RECURSIVE SeqSum(_)
SeqSum(s) == IF s = <<>> THEN 0 ELSE Head(s) + SeqSum(Tail(s))

SetMin(S) == CHOOSE x \in S : \A y \in S : x <= y

SetMax(S) == CHOOSE x \in S : \A y \in S : x >= y

\* Python's dict.get(key, default) on a finding.
Get(d, k, default) == IF k \in DOMAIN d THEN d[k] ELSE default

\* f"F{i}" for the i-th face of faces().vals(), i counted from 0 as enumerate does.
FaceId(i) == <<"F", i - 1>>

\* math.degrees(math.acos(x)) for x = dot / 1e6 in [0, 1], rounded to a millidegree,
\* on the dot products the model's normals produce.
AcosMilliDeg(dot) ==
    CASE dot = 0 -> 90000
      [] dot = 1 -> 90000
      [] dot = 2 -> 90000
      [] dot = 5236 -> 89700
      [] dot = 8709 -> 89501
      [] dot = 8727 -> 89500
      [] dot = 12217 -> 89300
      [] dot = 17435 -> 89001
      [] dot = 17452 -> 89000
      [] dot = 34899 -> 88000
      [] dot = 49999 -> 87134
      [] dot = 50000 -> 87134
      [] dot = 50001 -> 87134
      [] dot = 52336 -> 87000
      [] dot = 500000 -> 60000
      [] dot = 694658 -> 46000
      [] dot = 699999 -> 45573
      [] dot = 700000 -> 45573
      [] dot = 700001 -> 45573
      [] dot = 707107 -> 45000
      [] dot = 719340 -> 44000
      [] dot = 866025 -> 30000
      [] dot = 999000 -> 2563
      [] dot = 999848 -> 999
      [] dot = 1000000 -> 0

\* The sample points of a face in the draft and overhang analyses: its center and,
\* for a non-planar face, the center of every boundary edge.  face.dots lists the
\* normal's Z component at the center, then at each edge center.
SamplePoints(face) ==
    IF face.geomType # "PLANE" THEN face.dots ELSE <<face.dots[1]>>

\* A face on which the per-face body of a normal-sampling loop raises.
SamplingFails(face) == face.fails \cap {"geomType", "normalAt"} # {}

\* ------------------------------------------------------ draft angles
draft_recommendation_shifted(angle) ==
    IF angle <= 0 THEN "CRITICAL: Negative draft - part will not eject. Add positive draft."
    ELSE IF angle <= 500 THEN "WARNING: Minimal draft - ejection difficult. Recommend 1-2 deg."
    ELSE IF angle <= 1000 THEN "CAUTION: Low draft - may cause ejection marks. Consider 2 deg+."
    ELSE "OK"

draft_recommendation(angle) ==
    IF angle < 0 THEN "CRITICAL: Negative draft - part will not eject. Add positive draft."
    ELSE IF angle < 500 THEN "WARNING: Minimal draft - ejection difficult. Recommend 1-2 deg."
    ELSE IF angle < 1000 THEN "CAUTION: Low draft - may cause ejection marks. Consider 2 deg+."
    ELSE "OK"

DraftAngleOf_signed(dot, pull) ==
    IF dot * pull < 0
    THEN 90000 - (180000 - AcosMilliDeg(Min2(-(dot * pull), 1000000)))
    ELSE 90000 - AcosMilliDeg(Min2(dot * pull, 1000000))

\* 90 - degrees(acos(min(|n.d|, 1))) for one sample normal; pull is d's Z component.
DraftAngleOf(dot, pull) == 90000 - AcosMilliDeg(Min2(Abs(dot * pull), 1000000))

\* The loop over sample points: min_draft starts at 90.0 and takes every smaller
\* draft angle.
MinDraft_centeronly(dots, pull, min_draft) == Min2(DraftAngleOf(Head(dots), pull), min_draft)

RECURSIVE MinDraft(_, _, _)
MinDraft(dots, pull, min_draft) ==
    IF dots = <<>> THEN min_draft
    ELSE LET draft_angle == DraftAngleOf(Head(dots), pull)
         IN  MinDraft(Tail(dots), pull,
                      IF draft_angle < min_draft THEN draft_angle ELSE min_draft)

DraftRecord(face, i, pull) ==
    LET min_draft == MinDraft(SamplePoints(face), pull, 90000)
    IN  [face_id |-> FaceId(i),
         face_type |-> face.geomType,
         draft_angle |-> min_draft,
         needs_draft |-> min_draft < 500,
         recommendation |-> draft_recommendation(min_draft)]

RECURSIVE DraftLoop(_, _, _)
DraftLoop(faces, i, pull) ==
    IF i > Len(faces) THEN <<>>
    ELSE (IF SamplingFails(faces[i]) THEN <<>> ELSE <<DraftRecord(faces[i], i, pull)>>)
         \o DraftLoop(faces, i + 1, pull)

analyze_draft_angles(wp, pull) == DraftLoop(wp.faces, 1, pull)

\* ---------------------------------------------------------- undercuts
UndercutRecord(face, i, dot) ==
    [face_id |-> FaceId(i),
     severity |-> IF dot < -700000 THEN "high" ELSE "medium",
     dot_product |-> dot,
     description |-> "Face creates an undercut.",
     recommendation |-> "Avoid features that face opposite to the pull direction, or use a complex mold with side-actions."]

RECURSIVE UndercutLoop(_, _, _)
UndercutLoop(faces, i, pull) ==
    IF i > Len(faces) THEN <<>>
    ELSE LET face == faces[i]
             dot == face.dots[1] * pull
         IN  (IF "normalAt" \notin face.fails /\ dot < -50000
              THEN <<UndercutRecord(face, i, dot)>> ELSE <<>>)
             \o UndercutLoop(faces, i + 1, pull)

detect_undercuts_unsigned(wp, pull) == UndercutLoop(wp.faces, 1, 1)

detect_undercuts(wp, pull) == UndercutLoop(wp.faces, 1, pull)

\* ---------------------------------------------------------- overhangs
\* The loop over sample points: max_overhang starts at 0 and takes the overhang
\* angle of every sample whose normal points down (dot < -1e-6).
RECURSIVE MaxOverhang(_, _)
MaxOverhang(dots, max_overhang) ==
    IF dots = <<>> THEN max_overhang
    ELSE LET dot == Head(dots)
         IN  MaxOverhang(Tail(dots),
                         IF dot < -1
                         THEN Max2(max_overhang, 90000 - AcosMilliDeg(Abs(dot)))
                         ELSE max_overhang)

\* if max_overhang > max_angle
OverhangFlagged_atleast(max_overhang, max_angle) == max_overhang >= max_angle

OverhangFlagged(max_overhang, max_angle) == max_overhang > max_angle

RECURSIVE OverhangLoop(_, _, _)
OverhangLoop(faces, i, max_angle) ==
    IF i > Len(faces) THEN <<>>
    ELSE LET face == faces[i]
             max_overhang == MaxOverhang(SamplePoints(face), 0)
         IN  (IF ~SamplingFails(face) /\ OverhangFlagged(max_overhang, max_angle)
              THEN <<[face_id |-> FaceId(i),
                      overhang_angle |-> max_overhang,
                      needs_support |-> TRUE,
                      recommendation |-> "Overhang exceeds max_angle. Requires support material."]>>
              ELSE <<>>)
             \o OverhangLoop(faces, i + 1, max_angle)

analyze_overhangs_3d_print(wp, max_angle) == OverhangLoop(wp.faces, 1, max_angle)

\* ------------------------------------------------- sharp internal corners
\* math.degrees(math.acos(max(-1.0, min(1.0, dot)))) for a dot of either sign.
CornerAngle(dot) ==
    IF dot >= 0 THEN AcosMilliDeg(Min2(dot, 1000000))
    ELSE 180000 - AcosMilliDeg(Min2(-dot, 1000000))

\* The body of the loop over edge_to_faces for one edge: TRUE when it appends.
\* An edge lists the faces whose edges() hold it (edge.faces), the dot product of
\* their normals at its center (edge.dot) and whether the probe point is inside.
SharpCorner_noprobe(wp, edge) ==
    /\ Len(edge.faces) = 2
    /\ edge.fails = {}
    /\ edge.geomType = "LINE"
    /\ "normalAt" \notin wp.faces[edge.faces[1]].fails
    /\ "normalAt" \notin wp.faces[edge.faces[2]].fails
    /\ ~(Abs(edge.dot) > 999000)

SharpCorner(wp, edge) ==
    /\ Len(edge.faces) = 2
    /\ edge.fails = {}
    /\ edge.geomType = "LINE"
    /\ "normalAt" \notin wp.faces[edge.faces[1]].fails
    /\ "normalAt" \notin wp.faces[edge.faces[2]].fails
    /\ ~(Abs(edge.dot) > 999000)
    /\ edge.inside

RECURSIVE CornerLoop(_, _)
CornerLoop(wp, k) ==
    IF k > Len(wp.edges) THEN <<>>
    ELSE (IF SharpCorner(wp, wp.edges[k])
          THEN <<[edge_id |-> "SHARP_EDGE",
                  angle |-> CornerAngle(wp.edges[k].dot),
                  type |-> "SHARP_INTERNAL",
                  severity |-> "medium",
                  recommendation |-> "Concave corner detected. Consider adding a fillet."]>>
          ELSE <<>>)
         \o CornerLoop(wp, k + 1)

detect_sharp_internal_corners(wp) == CornerLoop(wp, 1)

\* ---------------------------------------------------- holes and bosses
\* (radius, height) of a cylindrical face: the radius of its first circular edge
\* (face.radius, 0 when it has none) and area / (2 pi r), with pi = 355/113; (0, 0)
\* when a query raises.
get_cylinder_properties(face) ==
    IF "Area" \in face.fails \/ ~(face.radius > 0) THEN <<0, 0>>
    ELSE <<face.radius, (((1000 * face.area) \div face.radius) * 113) \div 710>>

\* Orientation() == "REVERSED" makes the feature a hole.
IsInternal_flipped(face) == face.orientation # "REVERSED"

IsInternal(face) == face.orientation = "REVERSED"

HoleFeature(face, i) ==
    LET props == get_cylinder_properties(face)
    IN  [face_id |-> FaceId(i),
         type |-> IF IsInternal(face) THEN "HOLE" ELSE "BOSS",
         radius |-> props[1],
         diameter |-> 2 * props[1],
         height |-> props[2],
         area |-> face.area,
         is_internal |-> IsInternal(face),
         recommendation |-> "Check if diameter matches standard tooling."]

RECURSIVE HoleLoop(_, _)
HoleLoop(faces, i) ==
    IF i > Len(faces) THEN <<>>
    ELSE (IF faces[i].geomType = "CYLINDER" THEN <<HoleFeature(faces[i], i)>> ELSE <<>>)
         \o HoleLoop(faces, i + 1)

\* The whole loop is inside one try: a geomType() that raises on any face, or an
\* Area() that raises on a cylindrical face, makes the result [].
analyze_hole_dimensions(wp) ==
    IF \E i \in 1..Len(wp.faces) :
          \/ "geomType" \in wp.faces[i].fails
          \/ wp.faces[i].geomType = "CYLINDER" /\ "Area" \in wp.faces[i].fails
    THEN <<>>
    ELSE HoleLoop(wp.faces, 1)

\* The tap-drill table, in iteration order: <<drill size, tap>>.
taps ==
    << <<2500, "M3">>, <<3300, "M4">>, <<4200, "M5">>, <<5000, "M6">>,
       <<6800, "M8">>, <<8500, "M10">>, <<10200, "M12">> >>

\* The loop over taps.items(), which stops at the first match.
RECURSIVE TapMatch(_, _, _)
TapMatch(hole, diameter, k) ==
    IF k > Len(taps) THEN <<>>
    ELSE IF Abs(diameter - taps[k][1]) < 50
         THEN <<[face_id |-> hole.face_id,
                 type |-> "POTENTIAL_TAPPED_HOLE",
                 tap |-> taps[k][2],
                 diameter |-> diameter,
                 severity |-> "info",
                 recommendation |-> "Hole matches tap drill size. Ensure appropriate thread clearance and depth."]>>
         ELSE TapMatch(hole, diameter, k + 1)

HoleFindings(hole) ==
    LET diameter == hole.diameter
        depth == hole.height
    IN  IF ~(hole.is_internal /\ diameter > 0) THEN <<>>
        ELSE (IF depth > 5 * diameter
              THEN <<[face_id |-> hole.face_id,
                      type |-> "DEEP_HOLE",
                      diameter |-> diameter,
                      depth |-> depth,
                      severity |-> IF depth > 10 * diameter THEN "high" ELSE "medium",
                      recommendation |-> "Hole L/D ratio: ratios > 5 require special drills; > 10 are very difficult."]>>
              ELSE <<>>)
             \o (IF diameter < 1500
                 THEN <<[face_id |-> hole.face_id,
                         type |-> "SMALL_HOLE",
                         diameter |-> diameter,
                         severity |-> "medium",
                         recommendation |-> "Hole diameter is small. Ensure availability of micro-drills."]>>
                 ELSE <<>>)
             \o TapMatch(hole, diameter, 1)

RECURSIVE MachinabilityLoop(_)
MachinabilityLoop(holes) ==
    IF holes = <<>> THEN <<>>
    ELSE HoleFindings(Head(holes)) \o MachinabilityLoop(Tail(holes))

analyze_hole_machinability_anyfeature(wp) ==
    LET features == analyze_hole_dimensions(wp)
    IN  MachinabilityLoop([k \in DOMAIN features |-> [features[k] EXCEPT !.is_internal = TRUE]])

analyze_hole_machinability(wp) == MachinabilityLoop(analyze_hole_dimensions(wp))

\* float('inf')
Inf == 1000000000

\* The loop over the faces other than the hole's own: the smallest d - radius that
\* is above 1e-3, d being the distance from the hole face's center to the face.
RECURSIVE ClearanceMin(_, _, _, _, _)
ClearanceMin(wp, f_idx, radius, i, min_dist) ==
    IF i > Len(wp.faces) THEN min_dist
    ELSE LET clearance == wp.dist[f_idx][i] - radius
         IN  ClearanceMin(wp, f_idx, radius, i + 1,
                          IF i # f_idx /\ 1 < clearance /\ clearance < min_dist
                          THEN clearance ELSE min_dist)

\* A hole whose per-hole body raises: a distToShape of another face.
ClearanceFails(wp, f_idx) ==
    \E i \in 1..Len(wp.faces) : i # f_idx /\ "distToShape" \in wp.faces[i].fails

\* min_factor = 1.5 as 3/2
ClearanceFinding(wp, hole) ==
    LET f_idx == hole.face_id[2] + 1
        min_dist == ClearanceMin(wp, f_idx, hole.radius, 1, Inf)
    IN  IF hole.is_internal /\ ~ClearanceFails(wp, f_idx) /\ 2 * min_dist < 3 * hole.diameter
        THEN <<[face_id |-> hole.face_id,
                type |-> "HOLE_EDGE_CLEARANCE",
                clearance |-> min_dist,
                required |-> (3 * hole.diameter) \div 2,
                severity |-> IF min_dist < hole.diameter THEN "high" ELSE "medium",
                recommendation |-> "Hole is too close to an edge. Recommend at least the target clearance."]>>
        ELSE <<>>

RECURSIVE ClearanceLoop(_, _)
ClearanceLoop(wp, holes) ==
    IF holes = <<>> THEN <<>>
    ELSE ClearanceFinding(wp, Head(holes)) \o ClearanceLoop(wp, Tail(holes))

analyze_hole_clearance(wp) == ClearanceLoop(wp, analyze_hole_dimensions(wp))

BossFinding(feat) ==
    IF feat.type = "BOSS" /\ feat.diameter > 0 /\ feat.height > 3 * feat.diameter
    THEN <<[face_id |-> feat.face_id,
            type |-> "TALL_BOSS",
            height |-> feat.height,
            diameter |-> feat.diameter,
            severity |-> "medium",
            recommendation |-> "Boss height-to-diameter ratio is high. Recommend keeping H/D <= 3.0 to prevent breakage."]>>
    ELSE <<>>

RECURSIVE BossLoop(_)
BossLoop(features) ==
    IF features = <<>> THEN <<>>
    ELSE BossFinding(Head(features)) \o BossLoop(Tail(features))

analyze_boss_manufacturability(wp) == BossLoop(analyze_hole_dimensions(wp))

\* The two loops of the function have empty bodies: it returns [] on every path.
analyze_pocket_accessibility(wp) == <<>>

\* ---------------------------------------------------------- wall thickness
\* None, where the code returns None for a thickness.
None == -1

\* sample_points: int = 20
sample_points == 20

\* sorted(faces, key=lambda f: f.Area(), reverse=True)[:n] as the set of
\* the indices it keeps: the sort is stable, so of two faces of equal area the one
\* that comes first in faces stays first.
SampledFaces(faces, n) ==
    {i \in 1..Len(faces) :
        Cardinality({j \in 1..Len(faces) :
                        \/ faces[j].area > faces[i].area
                        \/ faces[j].area = faces[i].area /\ j < i}) < n}

\* if dist_in < dist: moving inward got us closer to f2
Facing_nonstrict(dist_in, dist) == dist_in <= dist

Facing(dist_in, dist) == dist_in < dist

\* The loop over f2 for the sampled face i: min_dist takes dist when dist is below
\* it and the probe point p - 0.01 n is closer to f2 than p is.
RECURSIVE LocalThickness(_, _, _, _)
LocalThickness(wp, i, j, min_dist) ==
    IF j > Len(wp.faces) THEN min_dist
    ELSE LocalThickness(wp, i, j + 1,
                        IF /\ j # i
                           /\ wp.dist[i][j] < min_dist
                           /\ Facing(wp.distIn[i][j], wp.dist[i][j])
                        THEN wp.dist[i][j] ELSE min_dist)

\* A sampled face whose body raises and is skipped: its own normalAt, or the
\* distToShape of another face.
ThicknessFails(wp, i) ==
    \/ "normalAt" \in wp.faces[i].fails
    \/ \E j \in 1..Len(wp.faces) : j # i /\ "distToShape" \in wp.faces[j].fails

\* thickness_values, as the function from the sampled faces that contribute to
\* their local thickness (min_dist < inf and min_dist > 1e-6).
ThicknessValues(wp, n) ==
    LET kept == {i \in SampledFaces(wp.faces, n) :
                    /\ ~ThicknessFails(wp, i)
                    /\ LocalThickness(wp, i, 1, Inf) < Inf
                    /\ LocalThickness(wp, i, 1, Inf) > 0}
    IN  [i \in kept |-> LocalThickness(wp, i, 1, Inf)]

RECURSIVE SumOver(_, _)
SumOver(f, S) ==
    IF S = {} THEN 0
    ELSE LET x == CHOOSE y \in S : TRUE IN f[x] + SumOver(f, S \ {x})

NoThickness == [min_thickness |-> None, max_thickness |-> None, avg_thickness |-> None]

\* workplane.val() is the first object of the workplane; on an empty workplane the
\* queries made on it raise.
ValFails(wp, query) == ~wp.val.present \/ query \in wp.val.fails

analyze_wall_thickness(wp, n) ==
    LET values == ThicknessValues(wp, n)
        dims == {wp.val.xlen, wp.val.ylen, wp.val.zlen}
    IN  IF \E i \in 1..Len(wp.faces) : "Area" \in wp.faces[i].fails
        THEN NoThickness
        ELSE IF DOMAIN values = {}
        THEN IF ValFails(wp, "BoundingBox") THEN NoThickness
             ELSE [min_thickness |-> SetMin(dims),
                   max_thickness |-> SetMax(dims),
                   avg_thickness |-> (wp.val.xlen + wp.val.ylen + wp.val.zlen) \div 3]
        ELSE LET vs == {values[i] : i \in DOMAIN values}
             IN  [min_thickness |-> SetMin(vs),
                  max_thickness |-> SetMax(vs),
                  avg_thickness |-> SumOver(values, DOMAIN values) \div Cardinality(DOMAIN values)]

\* if min_t and avg_t and min_t < (0.4 * avg_t): None and 0 are both falsy.
analyze_rib_proportions(wp) ==
    LET thickness_data == analyze_wall_thickness(wp, sample_points)
        avg_t == thickness_data.avg_thickness
        min_t == thickness_data.min_thickness
    IN  IF min_t # None /\ min_t # 0 /\ avg_t # None /\ avg_t # 0 /\ 10 * min_t < 4 * avg_t
        THEN <<[type |-> "THIN_RIB",
                thickness |-> min_t,
                nominal |-> avg_t,
                severity |-> "medium",
                recommendation |-> "Thin feature detected. If this is a rib, ensure it is 50-70% of wall thickness."]>>
        ELSE <<>>

\* -------------------------------------------------------- small features
\* threshold * threshold, threshold = 0.5
RECURSIVE SmallLoop(_, _)
SmallLoop(faces, i) ==
    IF i > Len(faces) THEN <<>>
    ELSE (IF "Area" \notin faces[i].fails /\ 0 < faces[i].area /\ faces[i].area < 250
          THEN <<[face_id |-> FaceId(i),
                  type |-> "SMALL_FACE",
                  area |-> faces[i].area,
                  severity |-> "low",
                  recommendation |-> "Face area is very small. Verify if it's intentional or a modeling artifact."]>>
          ELSE <<>>)
         \o SmallLoop(faces, i + 1)

detect_small_features(wp) == SmallLoop(wp.faces, 1)

\* ---------------------------------------------------------------- surfaces
\* analyze_curvature has no try: geomType() raising on a face, or Area() raising on
\* a non-planar face, leaves the function as an exception.
CurvatureRaises(wp) ==
    \E i \in 1..Len(wp.faces) :
        \/ "geomType" \in wp.faces[i].fails
        \/ wp.faces[i].geomType # "PLANE" /\ "Area" \in wp.faces[i].fails

Complexity(geom_type) ==
    IF geom_type \in {"CYLINDER", "CONE", "SPHERE"} THEN "medium"
    ELSE IF geom_type \in {"TORUS", "BSPLINE", "OFFSET", "OTHER"} THEN "high"
    ELSE "low"

RECURSIVE CurvatureLoop(_, _)
CurvatureLoop(faces, i) ==
    IF i > Len(faces) THEN <<>>
    ELSE (IF faces[i].geomType # "PLANE"
          THEN <<[face_id |-> FaceId(i),
                  type |-> faces[i].geomType,
                  complexity |-> Complexity(faces[i].geomType),
                  area |-> faces[i].area,
                  recommendation |-> "Complex surface detected. Ensure it's necessary for the design."]>>
          ELSE <<>>)
         \o CurvatureLoop(faces, i + 1)

analyze_curvature(wp) == CurvatureLoop(wp.faces, 1)

\* is_efficient: (area / volume) * (xlen + ylen + zlen) / 3 < 10.0, with the area of
\* the first object in mm^2, its volume in 1e-3 mm^3 and its extents in micrometres;
\* the ratio is 0 when the volume is not positive.  On any exception the result is
\* {"error": ...}, which has no is_efficient key.
analyze_surface_area_efficiency_above(wp) ==
    IF ValFails(wp, "Area") \/ ValFails(wp, "Volume") \/ ValFails(wp, "BoundingBox")
    THEN [error |-> "Analysis failed"]
    ELSE [surface_area |-> wp.val.area,
          volume |-> wp.val.volume,
          is_efficient |->
              IF wp.val.volume > 0
              THEN wp.val.area * (wp.val.xlen + wp.val.ylen + wp.val.zlen)
                       <= 30 * wp.val.volume
              ELSE TRUE,
          description |-> "Surface area to volume ratio normalized by characteristic length."]

analyze_surface_area_efficiency(wp) ==
    IF ValFails(wp, "Area") \/ ValFails(wp, "Volume") \/ ValFails(wp, "BoundingBox")
    THEN [error |-> "Analysis failed"]
    ELSE [surface_area |-> wp.val.area,
          volume |-> wp.val.volume,
          is_efficient |->
              IF wp.val.volume > 0
              THEN wp.val.area * (wp.val.xlen + wp.val.ylen + wp.val.zlen)
                       < 30 * wp.val.volume
              ELSE TRUE,
          description |-> "Surface area to volume ratio normalized by characteristic length."]

\* ---------------------------------------------------------------- assembly
\* A pair of solids <<i, j>>, i < j, answers the bounding-box overlap test, the
\* volume of the intersection (1e-3 mm^3) and the distance between the two, in
\* units of 1e-7 mm: 0.5 mm is 5000000 and the threshold 1e-6 mm is 10.  The volume
\* threshold 1e-6 mm^3 is below the model's resolution: above 1e-6 is above 0.
SolidPairs(n) == {p \in (1..n) \X (1..n) : p[1] < p[2]}

\* The pairs in the order of the two nested loops.
RECURSIVE PairSeq(_, _, _)
PairSeq(n, i, j) ==
    IF i > n THEN <<>>
    ELSE IF j > n THEN PairSeq(n, i + 1, i + 2)
    ELSE <<<<i, j>>>> \o PairSeq(n, i, j + 1)

\* analyze_solids has no try: a Volume() that raises leaves it as an exception.
SolidsRaises(wp) == \E i \in 1..Len(wp.solids) : "Volume" \in wp.solids[i].fails

analyze_solids(wp) ==
    [solid_count |-> Len(wp.solids),
     is_assembly |-> Len(wp.solids) > 1]

\* BoundingBox() is called outside the try of detect_interferences.
InterferencesRaises(wp) ==
    /\ Len(wp.solids) > 1
    /\ \E i \in 1..Len(wp.solids) : "BoundingBox" \in wp.solids[i].fails

InterferenceOf_onepercent(wp, p) ==
    LET pair == wp.pairs[p]
        v1 == wp.solids[p[1]].volume
        v2 == wp.solids[p[2]].volume
        rel_severity == IF Min2(v1, v2) > 0 THEN (1000 * pair.ivol) \div Min2(v1, v2) ELSE 0
    IN  IF ~pair.overlap THEN <<>>
        ELSE IF "intersect" \in pair.fails
                  \/ (pair.ivol > 0 /\ ("Volume" \in wp.solids[p[1]].fails
                                        \/ "Volume" \in wp.solids[p[2]].fails))
        THEN <<[solids |-> <<p[1] - 1, p[2] - 1>>,
                type |-> "POTENTIAL_INTERFERENCE",
                severity |-> "medium",
                description |-> "Bounding boxes overlap, but exact volume check failed."]>>
        ELSE IF pair.ivol > 0
        THEN <<[solids |-> <<p[1] - 1, p[2] - 1>>,
                type |-> "INTERFERENCE",
                volume |-> pair.ivol,
                relative_severity |-> rel_severity,
                severity |-> IF Min2(v1, v2) > 0 /\ 100 * pair.ivol >= Min2(v1, v2)
                             THEN "high" ELSE "medium",
                recommendation |-> "Solids overlap. Redesign to remove interference."]>>
        ELSE <<>>

InterferenceOf(wp, p) ==
    LET pair == wp.pairs[p]
        v1 == wp.solids[p[1]].volume
        v2 == wp.solids[p[2]].volume
        rel_severity == IF Min2(v1, v2) > 0 THEN (1000 * pair.ivol) \div Min2(v1, v2) ELSE 0
    IN  IF ~pair.overlap THEN <<>>
        ELSE IF "intersect" \in pair.fails
                  \/ (pair.ivol > 0 /\ ("Volume" \in wp.solids[p[1]].fails
                                        \/ "Volume" \in wp.solids[p[2]].fails))
        THEN <<[solids |-> <<p[1] - 1, p[2] - 1>>,
                type |-> "POTENTIAL_INTERFERENCE",
                severity |-> "medium",
                description |-> "Bounding boxes overlap, but exact volume check failed."]>>
        ELSE IF pair.ivol > 0
        THEN <<[solids |-> <<p[1] - 1, p[2] - 1>>,
                type |-> "INTERFERENCE",
                volume |-> pair.ivol,
                relative_severity |-> rel_severity,
                severity |-> IF Min2(v1, v2) > 0 /\ 100 * pair.ivol > Min2(v1, v2)
                             THEN "high" ELSE "medium",
                recommendation |-> "Solids overlap. Redesign to remove interference."]>>
        ELSE <<>>

RECURSIVE InterferenceLoop(_, _)
InterferenceLoop(wp, ps) ==
    IF ps = <<>> THEN <<>>
    ELSE InterferenceOf(wp, Head(ps)) \o InterferenceLoop(wp, Tail(ps))

detect_interferences(wp) == InterferenceLoop(wp, PairSeq(Len(wp.solids), 1, 2))

ClearanceOf_atmost(wp, p, min_clearance) ==
    LET pair == wp.pairs[p]
    IN  IF "distToShape" \notin pair.fails /\ ~(pair.distance < 10)
           /\ pair.distance <= min_clearance
        THEN <<[solids |-> <<p[1] - 1, p[2] - 1>>,
                distance |-> pair.distance,
                type |-> "LOW_CLEARANCE",
                severity |-> IF 2 * pair.distance < min_clearance THEN "high" ELSE "medium",
                recommendation |-> "Clearance between solids is below the target."]>>
        ELSE <<>>

\* min_clearance: float = 0.5
ClearanceOf(wp, p, min_clearance) ==
    LET pair == wp.pairs[p]
    IN  IF "distToShape" \notin pair.fails /\ ~(pair.distance < 10)
           /\ pair.distance < min_clearance
        THEN <<[solids |-> <<p[1] - 1, p[2] - 1>>,
                distance |-> pair.distance,
                type |-> "LOW_CLEARANCE",
                severity |-> IF 2 * pair.distance < min_clearance THEN "high" ELSE "medium",
                recommendation |-> "Clearance between solids is below the target."]>>
        ELSE <<>>

RECURSIVE ClearancePairLoop(_, _, _)
ClearancePairLoop(wp, ps, min_clearance) ==
    IF ps = <<>> THEN <<>>
    ELSE ClearanceOf(wp, Head(ps), min_clearance)
         \o ClearancePairLoop(wp, Tail(ps), min_clearance)

analyze_clearances(wp, min_clearance) ==
    ClearancePairLoop(wp, PairSeq(Len(wp.solids), 1, 2), min_clearance)

\* ---------------------------------------------------------------- physical
\* A solid here also answers Center(), a point <<x, y, z>> in micrometres, and
\* BoundingBox(), a record of xmin..zmax.  Masses are in 1e-8 g: a volume in
\* 1e-3 mm^3 times a density in 1e-2 g/cm^3.
\* BoundBox.add(other): "a new box will be created that encloses both.  This bounding
\* box is not changed."
BoundBoxAdd(a, b) ==
    [xmin |-> Min2(a.xmin, b.xmin), xmax |-> Max2(a.xmax, b.xmax),
     ymin |-> Min2(a.ymin, b.ymin), ymax |-> Max2(a.ymax, b.ymax),
     zmin |-> Min2(a.zmin, b.zmin), zmax |-> Max2(a.zmax, b.zmax)]

get_bbox_dict(bbox) ==
    [xmin |-> bbox.xmin, xmax |-> bbox.xmax, ymin |-> bbox.ymin, ymax |-> bbox.ymax,
     zmin |-> bbox.zmin, zmax |-> bbox.zmax,
     length |-> bbox.xmax - bbox.xmin, width |-> bbox.ymax - bbox.ymin,
     height |-> bbox.zmax - bbox.zmin]

\* No try in analyze_physical_properties: a query that raises leaves the call.
PhysicalRaises(wp) ==
    \E i \in 1..Len(wp.solids) : wp.solids[i].fails \cap {"Volume", "Center", "BoundingBox"} # {}

\* The loop over enumerate(solids): total_volume, weighted_center and
\* individual_properties after the solids from i on, starting from acc.
RECURSIVE PropertiesLoop(_, _, _, _)
PropertiesLoop(solids, i, density, acc) ==
    IF i > Len(solids) THEN acc
    ELSE LET vol == solids[i].volume
             center == solids[i].center
         IN  PropertiesLoop(solids, i + 1, density,
                 [total_volume |-> acc.total_volume + vol,
                  weighted_center |-> [a \in 1..3 |-> acc.weighted_center[a] + center[a] * vol],
                  individual_properties |->
                      Append(acc.individual_properties,
                             [id |-> <<"S", i - 1>>,
                              volume |-> vol,
                              mass |-> vol * density,
                              center_of_gravity |-> center,
                              bounding_box |-> get_bbox_dict(solids[i].bbox)])])

\* combined_bbox = solids[0].BoundingBox(); for s in solids[1:]:
\* combined_bbox.add(s.BoundingBox()) -- the box add() returns is not assigned.
RECURSIVE CombinedBox(_, _, _)
CombinedBox(combined_bbox, solids, i) ==
    IF i > Len(solids) THEN combined_bbox
    ELSE LET returned == BoundBoxAdd(combined_bbox, solids[i].bbox)
         IN  CombinedBox(combined_bbox, solids, i + 1)

analyze_physical_properties(wp, density) ==
    IF wp.solids = <<>>
    THEN [total_volume |-> 0, total_mass |-> 0, center_of_gravity |-> <<0, 0, 0>>,
          solids |-> <<>>]
    ELSE LET sums == PropertiesLoop(wp.solids, 1, density,
                         [total_volume |-> 0, weighted_center |-> <<0, 0, 0>>,
                          individual_properties |-> <<>>])
         IN  [total_volume |-> sums.total_volume,
              total_mass |-> sums.total_volume * density,
              center_of_gravity |->
                  IF sums.total_volume > 0
                  THEN [a \in 1..3 |-> sums.weighted_center[a] \div sums.total_volume]
                  ELSE <<0, 0, 0>>,
              density |-> density,
              bounding_box |-> get_bbox_dict(CombinedBox(wp.solids[1].bbox, wp.solids, 2)),
              solids |-> sums.individual_properties]

\* ------------------------------------------------------ geometry summary
extract_geometry_summary_boxonly(wp) ==
    IF ValFails(wp, "BoundingBox")
    THEN [bounding_box |-> None, volume |-> 0, surface_area |-> 0, face_count |-> 0,
          edge_count |-> 0, error |-> "str(e)"]
    ELSE [bounding_box |-> [width |-> wp.val.xlen, height |-> wp.val.ylen, depth |-> wp.val.zlen],
          volume |-> wp.val.volume,
          surface_area |-> SeqSum([i \in 1..Len(wp.faces) |-> wp.faces[i].area]),
          face_count |-> Len(wp.faces),
          edge_count |-> Len(wp.edges)]

\* The whole body is inside try/except Exception: any query that raises gives the
\* summary with bounding_box None.  The sum of the faces' areas is in 1e-3 mm^2.
extract_geometry_summary(wp) ==
    IF ValFails(wp, "BoundingBox") \/ ValFails(wp, "Volume")
       \/ \E i \in 1..Len(wp.faces) : "Area" \in wp.faces[i].fails
    THEN [bounding_box |-> None, volume |-> 0, surface_area |-> 0, face_count |-> 0,
          edge_count |-> 0, error |-> "str(e)"]
    ELSE [bounding_box |-> [width |-> wp.val.xlen, height |-> wp.val.ylen, depth |-> wp.val.zlen],
          volume |-> wp.val.volume,
          surface_area |-> SeqSum([i \in 1..Len(wp.faces) |-> wp.faces[i].area]),
          face_count |-> Len(wp.faces),
          edge_count |-> Len(wp.edges)]

\* ------------------------------------------------------------- analyze_dfm
create_issue(rule_id, rule_name, severity, description, recommendation, affected_features, auto_fix_available) ==
    [ruleId |-> rule_id,
     ruleName |-> rule_name,
     severity |-> severity,
     description |-> description,
     affectedFeatures |-> affected_features,
     recommendation |-> recommendation,
     autoFixAvailable |-> auto_fix_available]

\* IssueSeverity.WARNING if hole.get("severity") == "medium" else IssueSeverity.ERROR
HoleSeverity_raw(hole) == Get(hole, "severity", "")

HoleSeverity(hole) == IF Get(hole, "severity", "") = "medium" THEN "WARNING" ELSE "ERROR"

Cnc001(corner) ==
    create_issue("CNC_001", "Sharp Internal Corners", "ERROR",
                 "Sharp internal corner detected with radius < 1.5mm.",
                 "Add fillet radius >= 1.5mm (matching tool radius) to internal corners for CNC accessibility.",
                 Get(corner, "affected_features", <<>>), TRUE)

Cnc002(hole) ==
    create_issue("CNC_002", "Hole Machinability", HoleSeverity(hole),
                 Get(hole, "description", "Hole may be difficult to machine"),
                 Get(hole, "recommendation", "Review hole dimensions and depth-to-diameter ratio."),
                 Get(hole, "affected_features", <<>>), FALSE)

Cnc003(clearance) ==
    create_issue("CNC_003", "Hole Edge Clearance", "WARNING",
                 Get(clearance, "description", "Insufficient clearance between hole and edge"),
                 Get(clearance, "recommendation", "Ensure minimum 2x wall thickness between holes and edges."),
                 Get(clearance, "affected_features", <<>>), FALSE)

Cnc004(pocket) ==
    create_issue("CNC_004", "Pocket Accessibility", "WARNING",
                 Get(pocket, "description", "Pocket may be difficult to access"),
                 Get(pocket, "recommendation", "Ensure pocket depth <= 3x tool diameter for optimal machining."),
                 Get(pocket, "affected_features", <<>>), FALSE)

\* if min_thick is not None and min_thick < 0.8
ThinWall_atmost(thickness) == thickness.min_thickness # None /\ thickness.min_thickness <= 800

ThinWall(thickness) == thickness.min_thickness # None /\ thickness.min_thickness < 800

Cnc005(thickness) ==
    IF ThinWall(thickness)
    THEN <<create_issue("CNC_005", "Minimum Wall Thickness", "ERROR",
                        "Wall thickness is below minimum for CNC machining.",
                        "Metal parts typically require >=0.8mm wall thickness for CNC machining stability.",
                        <<>>, FALSE)>>
    ELSE <<>>

Im001(issue) ==
    create_issue("IM_001", "Insufficient Draft Angle", "ERROR",
                 "Face requires draft angle.",
                 "Add minimum 0.5 deg draft (1-2 deg recommended) in pull direction for easy part ejection.",
                 Get(issue, "affected_features", <<>>), TRUE)

\* for issue in draft_issues: if issue.get("needs_draft")
RECURSIVE DraftIssues(_)
DraftIssues(records) ==
    IF records = <<>> THEN <<>>
    ELSE (IF Get(Head(records), "needs_draft", FALSE) THEN <<Im001(Head(records))>> ELSE <<>>)
         \o DraftIssues(Tail(records))

Im002(undercut) ==
    create_issue("IM_002", "Undercut Detection", "ERROR",
                 Get(undercut, "description", "Undercut detected that prevents straight mold ejection"),
                 "Remove undercuts or design for side-action/lifter mechanisms (increases cost).",
                 Get(undercut, "affected_features", <<>>), FALSE)

Im003(boss) ==
    create_issue("IM_003", "Boss Design", "WARNING",
                 Get(boss, "description", "Boss design may cause sink marks or structural issues"),
                 Get(boss, "recommendation", "Ensure boss outer diameter is 2x inner diameter and add ribs for support."),
                 Get(boss, "affected_features", <<>>), FALSE)

Im004(rib) ==
    create_issue("IM_004", "Rib Proportions", "WARNING",
                 Get(rib, "description", "Rib proportions may cause sink marks or warping"),
                 "Rib thickness should be 50-70% of wall thickness, height <= 3x rib thickness.",
                 Get(rib, "affected_features", <<>>), FALSE)

Im005(clearance) ==
    create_issue("IM_005", "Feature Edge Clearance", "WARNING",
                 Get(clearance, "description", "Insufficient clearance between features"),
                 Get(clearance, "recommendation", "Maintain adequate spacing between features."),
                 Get(clearance, "affected_features", <<>>), FALSE)

\* variation = (max_thick - min_thick) / min_thick; if variation > 0.5
ImThickness(thickness) ==
    LET min_thick == thickness.min_thickness
        max_thick == thickness.max_thickness
    IN  IF min_thick = None THEN <<>>
        ELSE (IF min_thick < 800
              THEN <<create_issue("IM_006", "Minimum Wall Thickness", "ERROR",
                                  "Wall thickness is below minimum for injection molding.",
                                  "Increase wall thickness to at least 0.8mm-1.0mm for injection molding.",
                                  <<>>, FALSE)>>
              ELSE <<>>)
             \o (IF max_thick # None /\ min_thick > 0 /\ 2 * (max_thick - min_thick) > min_thick
                 THEN <<create_issue("IM_007", "Wall Thickness Uniformity", "WARNING",
                                     "Wall thickness varies.",
                                     "Aim for uniform thickness (+-25% variation) to prevent warping and sink marks.",
                                     <<>>, FALSE)>>
                 ELSE <<>>)

Fdm001(overhang) ==
    create_issue("FDM_001", "Overhang Angle", "WARNING",
                 Get(overhang, "description", "Overhang exceeds 45 deg and may require support structures"),
                 "Redesign to keep overhangs <=45 deg from vertical or add support structures.",
                 Get(overhang, "affected_features", <<>>), FALSE)

Fdm002(clearance) ==
    create_issue("FDM_002", "Feature Spacing", "WARNING",
                 Get(clearance, "description", "Insufficient spacing between features"),
                 Get(clearance, "recommendation", "Ensure adequate spacing for print quality."),
                 Get(clearance, "affected_features", <<>>), FALSE)

Fdm003_cnc(thickness) == Cnc005(thickness)

Fdm003(thickness) ==
    IF ThinWall(thickness)
    THEN <<create_issue("FDM_003", "Minimum Wall Thickness", "WARNING",
                        "Wall thickness is below recommended minimum for FDM.",
                        "Wall thickness below 0.8mm (2x nozzle diameter) may be fragile or fail to print.",
                        <<>>, FALSE)>>
    ELSE <<>>

\* for surf in complex_surfaces: if surf.get("complexity") == "high"
RECURSIVE Gen001(_)
Gen001(surfaces) ==
    IF surfaces = <<>> THEN <<>>
    ELSE (IF Get(Head(surfaces), "complexity", "") = "high"
          THEN <<create_issue("GEN_001", "Complex Surface Geometry", "INFO",
                              "Complex BSPLINE surface detected.",
                              "Consider simplifying this surface to reduce manufacturing complexity and cost.",
                              <<Get(Head(surfaces), "face_id", "")>>, FALSE)>>
          ELSE <<>>)
         \o Gen001(Tail(surfaces))

\* if not efficiency.get("is_efficient", True)
Gen002(efficiency) ==
    IF ~Get(efficiency, "is_efficient", TRUE)
    THEN <<create_issue("GEN_002", "Material Efficiency", "INFO",
                        "High surface-to-volume ratio.",
                        "Consider simplifying geometry or increasing thickness to improve material efficiency.",
                        <<>>, FALSE)>>
    ELSE <<>>

Asm001(interference) ==
    create_issue("ASM_001", "Part Interference", "ERROR",
                 Get(interference, "description", "Parts overlap in assembly"),
                 "Adjust part positions or geometry to eliminate interference.",
                 Get(interference, "affected_features", <<>>), FALSE)

Asm002(clearance) ==
    create_issue("ASM_002", "Assembly Clearance", "WARNING",
                 Get(clearance, "description", "Insufficient clearance between parts"),
                 Get(clearance, "recommendation", "Ensure adequate clearance for assembly."),
                 Get(clearance, "affected_features", <<>>), FALSE)

Gen003(feature) ==
    create_issue("GEN_003", "Small Feature Detection", "WARNING",
                 Get(feature, "description", "Feature may be too small to manufacture reliably"),
                 Get(feature, "recommendation", "Increase feature size or remove if not critical."),
                 Get(feature, "affected_features", <<>>), FALSE)

\* issues.append(_create_issue(rule_id=..., ...)) for one finding of the rule's analysis.
MakeIssue(rule_id, finding) ==
    CASE rule_id = "CNC_001" -> Cnc001(finding)
      [] rule_id = "CNC_002" -> Cnc002(finding)
      [] rule_id = "CNC_003" -> Cnc003(finding)
      [] rule_id = "CNC_004" -> Cnc004(finding)
      [] rule_id = "IM_002" -> Im002(finding)
      [] rule_id = "IM_003" -> Im003(finding)
      [] rule_id = "IM_004" -> Im004(finding)
      [] rule_id = "IM_005" -> Im005(finding)
      [] rule_id = "FDM_001" -> Fdm001(finding)
      [] rule_id = "FDM_002" -> Fdm002(finding)
      [] rule_id = "ASM_001" -> Asm001(finding)
      [] rule_id = "ASM_002" -> Asm002(finding)
      [] rule_id = "GEN_003" -> Gen003(finding)

\* for finding in findings: issues.append(...): one issue per finding, in order.
IssuesOf(findings, rule_id) ==
    IF findings = <<>> THEN <<>>
    ELSE [k \in 1..Len(findings) |-> MakeIssue(rule_id, findings[k])]

CncIssues(wp) ==
    IssuesOf(detect_sharp_internal_corners(wp), "CNC_001")
    \o IssuesOf(analyze_hole_machinability(wp), "CNC_002")
    \o IssuesOf(analyze_hole_clearance(wp), "CNC_003")
    \o IssuesOf(analyze_pocket_accessibility(wp), "CNC_004")
    \o Cnc005(analyze_wall_thickness(wp, sample_points))

CncCalls ==
    <<"detect_sharp_internal_corners", "analyze_hole_machinability", "analyze_hole_clearance",
      "analyze_pocket_accessibility", "analyze_wall_thickness">>

ImIssues(wp) ==
    DraftIssues(analyze_draft_angles(wp, 1))
    \o IssuesOf(detect_undercuts(wp, 1), "IM_002")
    \o IssuesOf(analyze_boss_manufacturability(wp), "IM_003")
    \o IssuesOf(analyze_rib_proportions(wp), "IM_004")
    \o IssuesOf(analyze_hole_clearance(wp), "IM_005")
    \o ImThickness(analyze_wall_thickness(wp, sample_points))

ImCalls ==
    <<"analyze_draft_angles", "detect_undercuts", "analyze_boss_manufacturability",
      "analyze_rib_proportions", "analyze_hole_clearance", "analyze_wall_thickness">>

\* max_angle: float = 45.0
default_max_angle == 45000

FdmIssues(wp) ==
    IssuesOf(analyze_overhangs_3d_print(wp, default_max_angle), "FDM_001")
    \o IssuesOf(analyze_hole_clearance(wp), "FDM_002")
    \o Fdm003(analyze_wall_thickness(wp, sample_points))

FdmCalls == <<"analyze_overhangs_3d_print", "analyze_hole_clearance", "analyze_wall_thickness">>

\* if assembly_info.get("solid_count", 0) > 1
IsAssembly_atleastone(assembly_info) == Get(assembly_info, "solid_count", 0) >= 1

IsAssembly(assembly_info) == Get(assembly_info, "solid_count", 0) > 1

\* min_clearance: float = 0.5
default_min_clearance == 5000000

\* ------------------------------------------------------------ workplanes
\* A face: the kernel's answers for geomType(), Area(), Orientation(), the Z component
\* of normalAt() at its sample points, the Radius() of its first circular edge, and
\* the queries that raise on it.  pos and ndir place it on a thickness axis (its
\* position, and the side its outward normal points to), from which SlabDist
\* derives the answers of distToShape.
Face(geomType, area, orientation, dots, radius, fails, pos, ndir) ==
    [geomType |-> geomType, area |-> area, orientation |-> orientation, dots |-> dots,
     radius |-> radius, fails |-> fails, pos |-> pos, ndir |-> ndir]

TopFace == Face("PLANE", 1500000, "FORWARD", <<1000000>>, 0, {}, 20000, 1)

BottomFace == Face("PLANE", 1500000, "FORWARD", <<-1000000>>, 0, {}, 0, -1)

\* A vertical wall 0.5 mm from the bottom face's plane.
ThinWallFace == Face("PLANE", 600000, "FORWARD", <<0>>, 0, {}, 500, 1)

\* A small face tilted 60 degrees from vertical, facing down.
TiltedFace == Face("PLANE", 100, "FORWARD", <<-866025>>, 0, {}, 600, -1)

\* A 5 mm hole, 10 mm deep.
HoleFace == Face("CYLINDER", 157080, "REVERSED", <<0, 0, 0>>, 2500, {}, 4000, 1)

\* A 1 mm hole, 12 mm deep.
DeepHoleFace == Face("CYLINDER", 37699, "REVERSED", <<0, 0, 0>>, 500, {}, 1000, 1)

\* A 2 mm boss, 8 mm tall.
BossFace == Face("CYLINDER", 50265, "FORWARD", <<0, 0, 0>>, 1000, {}, 12000, 1)

FreeformFace == Face("BSPLINE", 40000, "FORWARD", <<500000, 8709, -500000>>, 0, {}, 9000, -1)

NoNormalFace == Face("PLANE", 600000, "FORWARD", <<0>>, 0, {"normalAt"}, 500, 1)

NoAreaFace == Face("CYLINDER", 157080, "REVERSED", <<0, 0, 0>>, 2500, {"Area"}, 4000, 1)

NoTypeFace == Face("PLANE", 600000, "FORWARD", <<-1000000>>, 0, {"geomType"}, 0, -1)

NoDistFace == Face("PLANE", 600000, "FORWARD", <<1000000>>, 0, {"distToShape"}, 20000, 1)

FaceKinds ==
    {TopFace, BottomFace, ThinWallFace, TiltedFace, HoleFace, DeepHoleFace, BossFace,
     FreeformFace, NoNormalFace, NoAreaFace, NoTypeFace, NoDistFace}

SeqsUpTo(S, n) == UNION {[1..k -> S] : k \in 0..n}

\* distToShape between the center of face i (or the probe point 0.01 mm inward of
\* it) and face j, for faces that are parallel planes on the thickness axis.
SlabDist(faces) ==
    [i \in 1..Len(faces) |-> [j \in 1..Len(faces) |-> Abs(faces[i].pos - faces[j].pos)]]

SlabDistIn(faces) ==
    [i \in 1..Len(faces) |->
        [j \in 1..Len(faces) |-> Abs(faces[i].pos - 10 * faces[i].ndir - faces[j].pos)]]

\* The first object of the workplane: Area() in mm^2, Volume(), BoundingBox().
Val(area, volume, xlen, ylen, zlen, fails) ==
    [present |-> TRUE, area |-> area, volume |-> volume, xlen |-> xlen, ylen |-> ylen,
     zlen |-> zlen, fails |-> fails]

NoVal == [present |-> FALSE, area |-> 0, volume |-> 0, xlen |-> 0, ylen |-> 0, zlen |-> 0,
          fails |-> {}]

BlockVal == Val(6200, 30000000, 50000, 30000, 20000, {})

\* A 100 x 10 x 0.2 mm plate.
PlateVal == Val(2044, 200000, 100000, 10000, 200, {})

\* A 20 x 60 x 10 mm box: area / volume = 4000 / 12000, mean extent 30, product 10.
TenVal == Val(4000, 12000000, 20000, 60000, 10000, {})

ValKinds ==
    {BlockVal, PlateVal, TenVal, Val(3999, 12000000, 20000, 60000, 10000, {}),
     Val(6200, 0, 50000, 30000, 20000, {}),
     Val(6200, 30000000, 50000, 30000, 20000, {"BoundingBox"}),
     Val(6200, 30000000, 50000, 30000, 20000, {"Volume"}),
     Val(6200, 30000000, 50000, 30000, 20000, {"Area"})}

Solid(volume, fails) == [volume |-> volume, fails |-> fails]

BlockSolid == Solid(30000000, {})

Pair(overlap, ivol, distance, fails) ==
    [overlap |-> overlap, ivol |-> ivol, distance |-> distance, fails |-> fails]

Workplane(faces, dist, distIn, edges, val, solids, pairs) ==
    [faces |-> faces, dist |-> dist, distIn |-> distIn, edges |-> edges, val |-> val,
     solids |-> solids, pairs |-> pairs]

NoPairs == [p \in {} |-> Pair(FALSE, 0, 0, {})]

\* cq.Workplane("XY"): nothing on the stack.
EmptyWorkplane == Workplane(<<>>, <<>>, <<>>, <<>>, NoVal, <<>>, NoPairs)

\* One solid with the given faces.
FacesWorkplane(faces, val) ==
    IF faces = <<>> THEN EmptyWorkplane
    ELSE Workplane(faces, SlabDist(faces), SlabDistIn(faces), <<>>, val, <<BlockSolid>>, NoPairs)

FaceFamily == {FacesWorkplane(faces, BlockVal) : faces \in SeqsUpTo(FaceKinds, MaxFaces)}

ValFamily ==
    {FacesWorkplane(faces, val) :
        faces \in {<<ThinWallFace>>, <<TopFace, BottomFace>>}, val \in ValKinds}

\* An edge: geomType(), the faces whose edges() hold it, the dot product of their
\* normals at its center, isInside() of the probe point, and the queries that raise.
Edge(geomType, faces, dot, inside, fails) ==
    [geomType |-> geomType, faces |-> faces, dot |-> dot, inside |-> inside, fails |-> fails]

EdgeKinds ==
    {Edge("LINE", <<1, 2>>, 0, TRUE, {}), Edge("LINE", <<1, 2>>, 0, FALSE, {}),
     Edge("LINE", <<1, 2>>, -500000, TRUE, {}), Edge("LINE", <<1, 2>>, 1000000, TRUE, {}),
     Edge("LINE", <<1, 2>>, 999000, TRUE, {}), Edge("CIRCLE", <<1, 2>>, 0, TRUE, {}),
     Edge("LINE", <<1>>, 0, TRUE, {}), Edge("LINE", <<1, 3>>, 0, TRUE, {}),
     Edge("LINE", <<1, 2>>, 0, TRUE, {"isInside"}), Edge("LINE", <<1, 2>>, 0, TRUE, {"geomType"}),
     Edge("LINE", <<1, 2>>, -1000000, TRUE, {}), Edge("LINE", <<1, 2, 3>>, 0, TRUE, {})}

EdgeFaces == <<TopFace, ThinWallFace, NoNormalFace>>

EdgeFamily ==
    {Workplane(EdgeFaces, SlabDist(EdgeFaces), SlabDistIn(EdgeFaces), edges, BlockVal,
               <<BlockSolid>>, NoPairs) :
        edges \in SeqsUpTo(EdgeKinds, MaxEdges)}

SolidKinds == {Solid(1000, {}), Solid(8000, {"Volume"}), Solid(1000, {"BoundingBox"})}

PairKinds ==
    {Pair(FALSE, 0, 6000000, {}), Pair(FALSE, 0, 3000000, {}), Pair(TRUE, 500, 0, {}),
     Pair(TRUE, 5, 0, {}), Pair(TRUE, 0, 2000000, {"intersect"}),
     Pair(TRUE, 0, 1000000, {"distToShape"})}

AssemblyFaces == <<TopFace, BottomFace>>

AssemblyFamily ==
    UNION {{Workplane(AssemblyFaces, SlabDist(AssemblyFaces), SlabDistIn(AssemblyFaces),
                      <<>>, BlockVal, solids, pairs) :
               solids \in [1..n -> {Solid(1000, {})}] \cup [1..n -> SolidKinds],
               pairs \in [SolidPairs(n) -> PairKinds]} : n \in 1..MaxSolids}

\* cq.Workplane("XY").box(x, y, z), extents in micrometres: six planar faces in the
\* order -X, +X, -Y, +Y, -Z, +Z, twelve straight convex edges, one solid.
BoxAxis(i) == (i + 1) \div 2

BoxDist(ext, i, j) ==
    IF i = j THEN 0
    ELSE IF BoxAxis(i) = BoxAxis(j) THEN ext[BoxAxis(i)]
    ELSE ext[BoxAxis(j)] \div 2

BoxDistIn(ext, i, j) ==
    IF i # j /\ BoxAxis(i) = BoxAxis(j) THEN ext[BoxAxis(i)] - 10 ELSE BoxDist(ext, i, j)

BoxFace(ext, i) ==
    LET others == {a \in 1..3 : a # BoxAxis(i)}
        a1 == SetMin(others)
        a2 == SetMax(others)
    IN  Face("PLANE", (ext[a1] \div 1000) * ext[a2], "FORWARD",
             <<IF i = 5 THEN -1000000 ELSE IF i = 6 THEN 1000000 ELSE 0>>, 0, {}, 0, 1)

RECURSIVE BoxEdges(_)
BoxEdges(ps) ==
    IF ps = <<>> THEN <<>>
    ELSE (IF BoxAxis(Head(ps)[1]) # BoxAxis(Head(ps)[2])
          THEN <<Edge("LINE", Head(ps), 0, FALSE, {})>> ELSE <<>>)
         \o BoxEdges(Tail(ps))

BoxWorkplane(x, y, z) ==
    LET ext == <<x, y, z>>
        mm == <<x \div 1000, y \div 1000, z \div 1000>>
    IN  Workplane([i \in 1..6 |-> BoxFace(ext, i)],
                  [i \in 1..6 |-> [j \in 1..6 |-> BoxDist(ext, i, j)]],
                  [i \in 1..6 |-> [j \in 1..6 |-> BoxDistIn(ext, i, j)]],
                  BoxEdges(PairSeq(6, 1, 2)),
                  Val(2 * (mm[1] * mm[2] + mm[2] * mm[3] + mm[1] * mm[3]),
                      mm[1] * mm[2] * mm[3] * 1000, x, y, z, {}),
                  <<Solid(mm[1] * mm[2] * mm[3] * 1000, {})>>,
                  NoPairs)

Box50x30x20 == BoxWorkplane(50000, 30000, 20000)

\* A vertical wall at the given distance from the bottom face's plane.
WallAt(pos) == Face("PLANE", 600000, "FORWARD", <<0>>, 0, {}, pos, 1)

\* Walls just below, at and just above the 0.8 mm minimum.
WallFamily == {FacesWorkplane(<<BottomFace, WallAt(pos)>>, BlockVal) : pos \in {799, 800, 801}}

\* Two unit cubes overlapping by half, on a model that also has a face of 0.1 mm^2.
ChippedAssembly ==
    LET faces == <<TopFace, BottomFace, TiltedFace>>
    IN  Workplane(faces, SlabDist(faces), SlabDistIn(faces), <<>>, BlockVal,
                  <<Solid(1000, {}), Solid(1000, {})>>,
                  [p \in SolidPairs(2) |-> Pair(TRUE, 500, 0, {})])

Workplanes ==
    FaceFamily \cup ValFamily \cup EdgeFamily \cup AssemblyFamily \cup WallFamily
    \cup {EmptyWorkplane, Box50x30x20, BoxWorkplane(10000, 10000, 5000), ChippedAssembly}

RecognizedProcesses == {"CNC_MACHINING", "INJECTION_MOLDING", "FDM_3D_PRINTING"}

Processes == RecognizedProcesses \cup {"SHEET_METAL"}

\* --------------------------------------------------- analyze_dfm, step by step
\* pc is the position in one call of analyze_dfm(workplane, process): "idle"
\* (no call), "process" (before the if/elif chain), "surface", "efficiency", "assembly", "small", then
\* "done" (the list `issues` was returned) or "raised" (an exception left the
\* call).  `ran` lists the analyzers called so far.
DraftIdle == angle_in = 0 /\ rec_out = ""

OhIdle == oh_faces = <<>> /\ oh_max = 0 /\ oh_out = <<>> /\ oh_pc = "idle"

GeoIdle ==
    geo_fn = "" /\ geo_in = EmptyWorkplane /\ geo_arg = 0 /\ geo_out = <<>> /\ geo_pc = "idle"

NoCode == [outcome |-> "", size |-> "", sigterm |-> "", workplane |-> "", start |-> ""]

NoResult == [success |-> FALSE, error |-> "not returned"]

\* No event yielded yet.
NoEvents ==
    [last |-> "", complete |-> 0, error |-> 0, open_call |-> FALSE, two_calls |-> FALSE,
     after_complete |-> FALSE, calls_at_error |-> 0, raised |-> FALSE]

NoMessage == [content |-> FALSE, tool_calls |-> 0, left |-> 0]

AgIdle ==
    /\ ag_in = "" /\ ag_pc = "idle" /\ iteration = 0 /\ llm_calls = 0
    /\ message = NoMessage /\ seen = NoEvents

ExIdle ==
    /\ ex_in = NoCode /\ ex_pc = "idle" /\ worker = "unstarted"
    /\ result_queue = <<>> /\ error_queue = <<>> /\ temp_step = FALSE
    /\ in_time = FALSE /\ timed_out = FALSE /\ ex_ret = NoResult

Init ==
    /\ workplane = EmptyWorkplane
    /\ process = ""
    /\ pc = "idle"
    /\ issues = <<>>
    /\ ran = <<>>
    /\ DraftIdle
    /\ OhIdle
    /\ GeoIdle
    /\ ExIdle
    /\ AgIdle

\* A call of analyze_dfm(workplane, process): issues = [].
Invoke ==
    /\ pc = "idle"
    /\ workplane' \in Workplanes
    /\ process' \in Processes
    /\ pc' = "process"
    /\ issues' = <<>>
    /\ ran' = <<>>
    /\ UNCHANGED <<draft_vars, ag_vars, ex_vars, oh_vars, geo_vars>>

\* The call is over: its locals are gone, and the module keeps nothing.
Return ==
    /\ pc \in {"done", "raised"}
    /\ workplane' = EmptyWorkplane
    /\ process' = ""
    /\ pc' = "idle"
    /\ issues' = <<>>
    /\ ran' = <<>>
    /\ UNCHANGED <<draft_vars, ag_vars, ex_vars, oh_vars, geo_vars>>

CncChecks ==
    /\ pc = "process" /\ process = "CNC_MACHINING"
    /\ issues' = issues \o CncIssues(workplane)
    /\ ran' = ran \o CncCalls
    /\ pc' = "surface"
    /\ UNCHANGED <<workplane, process, draft_vars, ag_vars, ex_vars, oh_vars, geo_vars>>

ImChecks ==
    /\ pc = "process" /\ process = "INJECTION_MOLDING"
    /\ issues' = issues \o ImIssues(workplane)
    /\ ran' = ran \o ImCalls
    /\ pc' = "surface"
    /\ UNCHANGED <<workplane, process, draft_vars, ag_vars, ex_vars, oh_vars, geo_vars>>

FdmChecks ==
    /\ pc = "process" /\ process = "FDM_3D_PRINTING"
    /\ issues' = issues \o FdmIssues(workplane)
    /\ ran' = ran \o FdmCalls
    /\ pc' = "surface"
    /\ UNCHANGED <<workplane, process, draft_vars, ag_vars, ex_vars, oh_vars, geo_vars>>

\* No branch of the if/elif chain matches: there is no else.
NoProcessChecks ==
    /\ pc = "process" /\ process \notin RecognizedProcesses
    /\ pc' = "surface"
    /\ UNCHANGED <<workplane, process, issues, ran, draft_vars, ag_vars, ex_vars, oh_vars, geo_vars>>

CurvatureCheck ==
    /\ pc = "surface"
    /\ ran' = ran \o <<"analyze_curvature">>
    /\ IF CurvatureRaises(workplane)
       THEN pc' = "raised" /\ UNCHANGED issues
       ELSE pc' = "efficiency" /\ issues' = issues \o Gen001(analyze_curvature(workplane))
    /\ UNCHANGED <<workplane, process, draft_vars, ag_vars, ex_vars, oh_vars, geo_vars>>

EfficiencyCheck ==
    /\ pc = "efficiency"
    /\ ran' = ran \o <<"analyze_surface_area_efficiency">>
    /\ issues' = issues \o Gen002(analyze_surface_area_efficiency(workplane))
    /\ pc' = "assembly"
    /\ UNCHANGED <<workplane, process, draft_vars, ag_vars, ex_vars, oh_vars, geo_vars>>

AssemblyChecks ==
    /\ pc = "assembly"
    /\ IF SolidsRaises(workplane)
       THEN /\ pc' = "raised"
            /\ ran' = ran \o <<"analyze_solids">>
            /\ UNCHANGED issues
       ELSE IF ~IsAssembly(analyze_solids(workplane))
       THEN /\ pc' = "small"
            /\ ran' = ran \o <<"analyze_solids">>
            /\ UNCHANGED issues
       ELSE IF InterferencesRaises(workplane)
       THEN /\ pc' = "raised"
            /\ ran' = ran \o <<"analyze_solids", "detect_interferences">>
            /\ UNCHANGED issues
       ELSE /\ pc' = "small"
            /\ ran' = ran \o <<"analyze_solids", "detect_interferences", "analyze_clearances">>
            /\ issues' = issues
                   \o IssuesOf(detect_interferences(workplane), "ASM_001")
                   \o IssuesOf(analyze_clearances(workplane, default_min_clearance), "ASM_002")
    /\ UNCHANGED <<workplane, process, draft_vars, ag_vars, ex_vars, oh_vars, geo_vars>>

SmallFeatureCheck ==
    /\ pc = "small"
    /\ ran' = ran \o <<"detect_small_features">>
    /\ issues' = issues \o IssuesOf(detect_small_features(workplane), "GEN_003")
    /\ pc' = "done"
    /\ UNCHANGED <<workplane, process, draft_vars, ag_vars, ex_vars, oh_vars, geo_vars>>

Next ==
    \/ Invoke
    \/ CncChecks
    \/ ImChecks
    \/ FdmChecks
    \/ NoProcessChecks
    \/ CurvatureCheck
    \/ EfficiencyCheck
    \/ AssemblyChecks
    \/ SmallFeatureCheck
    \/ Return

Spec == Init /\ [][Next]_vars

\* ------------------------------------- analyze_overhangs_3d_print on its own
DfmIdle ==
    workplane = EmptyWorkplane /\ process = "" /\ pc = "idle" /\ issues = <<>> /\ ran = <<>>

OhFace(geomType, dots, fails) == Face(geomType, 1000000, "FORWARD", dots, 0, fails, 0, 1)

OhFaceKinds ==
    {OhFace("PLANE", <<-1000000>>, {}), OhFace("PLANE", <<-866025>>, {}),
     OhFace("PLANE", <<-707107>>, {}), OhFace("PLANE", <<-500000>>, {}),
     OhFace("PLANE", <<-1>>, {}), OhFace("PLANE", <<0>>, {}),
     OhFace("PLANE", <<866025>>, {}), OhFace("PLANE", <<1000000>>, {}),
     OhFace("CYLINDER", <<0, -866025, 500000>>, {}),
     OhFace("BSPLINE", <<500000, -500000, -719340>>, {}),
     OhFace("CONE", <<707107, 707107, 707107>>, {}),
     OhFace("PLANE", <<-1000000>>, {"normalAt"})}

OhThresholds == {30000, default_max_angle, 60000}

OhInit ==
    /\ DfmIdle
    /\ DraftIdle
    /\ GeoIdle
    /\ ExIdle
    /\ AgIdle
    /\ oh_faces \in SeqsUpTo(OhFaceKinds, MaxOhFaces)
    /\ oh_max \in OhThresholds
    /\ oh_out = <<>>
    /\ oh_pc = "called"

OhAnalyze ==
    /\ oh_pc = "called"
    /\ oh_out' = analyze_overhangs_3d_print([faces |-> oh_faces], oh_max)
    /\ oh_pc' = "returned"
    /\ UNCHANGED <<dfm_vars, draft_vars, ag_vars, ex_vars, geo_vars, oh_faces, oh_max>>

OhNext == OhAnalyze

SpecOverhang == OhInit /\ [][OhNext]_vars

\* ------------------------------------------- _draft_recommendation on its own
DraftAngles ==
    {50 * k : k \in (-MaxDraftSteps)..(3 * MaxDraftSteps)}
    \cup {-1, 1, 499, 501, 999, 1001}

RecInit ==
    /\ DfmIdle
    /\ OhIdle
    /\ GeoIdle
    /\ ExIdle
    /\ AgIdle
    /\ angle_in \in DraftAngles
    /\ rec_out = ""

Recommend ==
    /\ rec_out = ""
    /\ rec_out' = draft_recommendation(angle_in)
    /\ UNCHANGED <<dfm_vars, oh_vars, geo_vars, ex_vars, ag_vars, angle_in>>

RecNext == Recommend

SpecDraftRec == RecInit /\ [][RecNext]_vars

\* --------------------------------------------- the analyzers on their own
\* A call of one GeometryAnalyzer / SurfaceAnalyzer function: its name, the
\* workplane, its second argument (0 when it has none) and the list it returns.
GeoCall(fn, in, arg) == [fn |-> fn, in |-> in, arg |-> arg]

\* Planar faces by the Z component of their normal, around the -0.05 and -0.7
\* thresholds of detect_undercuts and their mirror images.
UcFace(dot, fails) == Face("PLANE", 1000000, "FORWARD", <<dot>>, 0, fails, 0, 1)

UcFaceKinds ==
    {UcFace(d, {}) : d \in {-1000000, -700001, -700000, -699999, -50001, -50000, -49999, 0,
                            49999, 50000, 50001, 700000, 700001, 1000000}}
    \cup {UcFace(-1000000, {"normalAt"})}

\* pull_direction (0, 0, 1) and (0, 0, -1).
PullDirections == {1, -1}

UndercutCalls ==
    {GeoCall("detect_undercuts", FacesWorkplane(faces, BlockVal), pull) :
        faces \in SeqsUpTo(UcFaceKinds, MaxGeoFaces), pull \in PullDirections}

\* Faces on the thickness axis; BackFace lies 5 micrometres behind ThinWallFace, so
\* that the probe point of ThinWallFace is exactly as far from it as its center.
BackFace == Face("PLANE", 200000, "FORWARD", <<-1000000>>, 0, {}, 495, -1)

ThFaceKinds ==
    {TopFace, BottomFace, ThinWallFace, TiltedFace, BackFace, NoNormalFace, NoDistFace,
     NoAreaFace}

\* sample_points: the default, and values below the number of faces.
SampleCounts == {1, 2, sample_points}

ThicknessCalls ==
    {GeoCall("analyze_wall_thickness", FacesWorkplane(faces, val), n) :
        faces \in SeqsUpTo(ThFaceKinds, MaxThFaces),
        val \in {BlockVal, Val(6200, 30000000, 50000, 30000, 20000, {"BoundingBox"})},
        n \in SampleCounts}

\* A cylindrical face by the radius of its circular edge (0: it has none), its
\* area and its orientation flag.
CylFace(radius, area, orientation) ==
    Face("CYLINDER", area, orientation, <<0, 0, 0>>, radius, {}, 4000, 1)

\* Holes with depth/diameter 2, 5, just above 5, 10 and just above 10, with diameters
\* at and next to 1.5 mm, at and around tap-drill sizes, without a circular edge;
\* bosses; a plane; faces whose queries raise.
CylFaceKinds ==
    {HoleFace, CylFace(500, 15708, "REVERSED"), CylFace(500, 15712, "REVERSED"),
     CylFace(500, 31416, "REVERSED"), CylFace(500, 31420, "REVERSED"),
     CylFace(750, 14138, "REVERSED"), CylFace(749, 14119, "REVERSED"),
     CylFace(0, 157080, "REVERSED"), CylFace(500, 31420, "FORWARD"),
     CylFace(2500, 157080, "FORWARD"), CylFace(3400, 213629, "REVERSED"),
     CylFace(2524, 158588, "REVERSED"), CylFace(2525, 158651, "REVERSED"),
     CylFace(2475, 155510, "REVERSED"), CylFace(2476, 155573, "REVERSED"),
     CylFace(1250, 39270, "REVERSED"), NoAreaFace, NoTypeFace, TopFace}

CylWorkplanes == {FacesWorkplane(faces, BlockVal) : faces \in SeqsUpTo(CylFaceKinds, MaxGeoFaces)}

MachinabilityCalls == {GeoCall("analyze_hole_machinability", wp, 0) : wp \in CylWorkplanes}

\* A 5 mm hole, 10 mm deep, with its center at the given position of the axis along
\* which SlabDist measures.
HoleAt(pos) == Face("CYLINDER", 157080, "REVERSED", <<0, 0, 0>>, 2500, {}, pos, 1)

\* Around a hole centered at 20 mm: walls whose distance minus the radius is far above
\* the 7.5 mm target, at it, just below it, at and just below one diameter, and at
\* and next to the 1e-3 floor; a second hole and a boss 6 mm away; a face whose
\* distToShape raises.
ClearanceFaceKinds ==
    {HoleAt(20000), HoleAt(14000), Face("CYLINDER", 157080, "FORWARD", <<0, 0, 0>>, 2500, {}, 14000, 1),
     NoDistFace}
    \cup {WallAt(pos) : pos \in {0, 10000, 10001, 12500, 12501, 17498, 17499, 17500}}

\* cq.Workplane("XY").box(20, 20, 10).faces(">Z").hole(5), the hole moved by cx along
\* X: the walls -X, +X, -Y, +Y, the bottom and top faces, and the hole face.  The
\* center of the hole face is on its axis at mid-height; the nearest point of the top
\* and bottom faces is on the rim of the hole, sqrt(5^2 + 2.5^2) = 5.590 mm away.
HoledBoxFaces ==
    <<WallAt(0), WallAt(0), WallAt(0), WallAt(0), BottomFace, TopFace, HoleFace>>

HoledBoxDist(cx) == <<10000 + cx, 10000 - cx, 10000, 10000, 5590, 5590, 0>>

HoledBox(cx) ==
    LET dist == [i \in 1..7 |-> [j \in 1..7 |-> IF i = 7 THEN HoledBoxDist(cx)[j] ELSE 0]]
    IN  Workplane(HoledBoxFaces, dist, dist, <<>>, BlockVal, <<BlockSolid>>, NoPairs)

\* The hole centered, and 1 mm and 3 mm off center.
HoleOffsets == {0, 1000, 3000}

ClearanceCalls ==
    {GeoCall("analyze_hole_clearance", FacesWorkplane(faces, BlockVal), 0) :
        faces \in SeqsUpTo(ClearanceFaceKinds, MaxGeoFaces)}
    \cup {GeoCall("analyze_hole_clearance", HoledBox(cx), 0) : cx \in HoleOffsets}

DimensionCalls ==
    {GeoCall("analyze_hole_dimensions", wp, 0) :
        wp \in CylWorkplanes \cup {BoxWorkplane(10000, 10000, 5000)}}

\* The values geomType() gives for a face.
SurfaceTypes ==
    {"PLANE", "CYLINDER", "CONE", "SPHERE", "TORUS", "BEZIER", "BSPLINE", "REVOLUTION",
     "EXTRUSION", "OFFSET", "OTHER"}

SurfFace(geom_type) == Face(geom_type, 40000, "FORWARD", <<0>>, 0, {}, 9000, 1)

CurvatureCalls ==
    {GeoCall("analyze_curvature", FacesWorkplane(faces, BlockVal), 0) :
        faces \in SeqsUpTo({SurfFace(t) : t \in SurfaceTypes} \cup {NoTypeFace, NoAreaFace},
                           MaxGeoFaces)}

\* Pairs of solids: apart by more than, exactly, and less than the default clearance
\* and half of it, and by 1e-6 mm, 9e-7 mm and 5e-7 mm; interfering by half a unit
\* cube and by volumes at and next to 1 % of a 1 mm^3 and of an 8 mm^3 solid;
\* touching; bounding boxes overlapping with the solids 0.2 mm apart; pairs whose
\* intersect or distToShape raises.
GeoPairKinds ==
    {Pair(FALSE, 0, d, {}) :
        d \in {6000000, 5000000, 4999999, 3000000, 2500000, 2499999, 10, 9, 5}}
    \cup {Pair(TRUE, v, 0, {}) : v \in {500, 10, 11, 80, 81, 0}}
    \cup {Pair(TRUE, 0, 2000000, {}), Pair(TRUE, 0, 2000000, {"intersect"}),
          Pair(FALSE, 0, 1000000, {"distToShape"})}

GeoSolidKinds == {Solid(1000, {}), Solid(8000, {})}

\* Two solids with every kind of pair; larger assemblies with pairs 0.3 mm apart,
\* 0.6 mm apart or interfering.
Assemblies ==
    {Workplane(<<>>, <<>>, <<>>, <<>>, BlockVal, solids, pairs) :
        solids \in [1..2 -> GeoSolidKinds \cup {Solid(1000, {"BoundingBox"})}],
        pairs \in [SolidPairs(2) -> GeoPairKinds]}
    \cup UNION {{Workplane(<<>>, <<>>, <<>>, <<>>, BlockVal, solids, pairs) :
                    solids \in [1..n -> GeoSolidKinds],
                    pairs \in [SolidPairs(n) ->
                                 {Pair(FALSE, 0, 3000000, {}), Pair(FALSE, 0, 6000000, {}),
                                  Pair(TRUE, 500, 0, {})}]} : n \in {1} \cup 3..MaxGeoSolids}

InterferenceCalls == {GeoCall("detect_interferences", wp, 0) : wp \in Assemblies}

MinClearances == {default_min_clearance, 3000001}

AssemblyClearanceCalls ==
    {GeoCall("analyze_clearances", wp, mc) : wp \in Assemblies, mc \in MinClearances}

\* A solid with its center and bounding box.
MassSolid(volume, center, bbox, fails) ==
    [volume |-> volume, center |-> center, bbox |-> bbox, fails |-> fails]

BoundBox(xmin, xmax, ymin, ymax, zmin, zmax) ==
    [xmin |-> xmin, xmax |-> xmax, ymin |-> ymin, ymax |-> ymax, zmin |-> zmin, zmax |-> zmax]

\* A unit cube at the origin, a unit cube 2 mm along X, a 2 mm cube below the XY
\* plane, a solid without volume, and a solid whose Center() raises.
MassSolidKinds ==
    {MassSolid(1000, <<500, 500, 500>>, BoundBox(0, 1000, 0, 1000, 0, 1000), {}),
     MassSolid(1000, <<2500, 500, 500>>, BoundBox(2000, 3000, 0, 1000, 0, 1000), {}),
     MassSolid(8000, <<1000, 1000, -1000>>, BoundBox(0, 2000, 0, 2000, -2000, 0), {}),
     MassSolid(0, <<5000, 0, 0>>, BoundBox(5000, 5000, 0, 0, 0, 0), {}),
     MassSolid(1000, <<500, 500, 500>>, BoundBox(0, 1000, 0, 1000, 0, 1000), {"Center"})}

\* density_g_cm3: 7.85 (steel, the default) and 2.70.
Densities == {785, 270}

PhysicalCalls ==
    {GeoCall("analyze_physical_properties",
             Workplane(<<>>, <<>>, <<>>, <<>>, BlockVal, solids, NoPairs), d) :
        solids \in SeqsUpTo(MassSolidKinds, MaxGeoSolids), d \in Densities}

SummaryCalls ==
    {GeoCall("_extract_geometry_summary", wp, 0) :
        wp \in ValFamily \cup {EmptyWorkplane, Box50x30x20}
                \cup {FacesWorkplane(<<f>>, BlockVal) : f \in FaceKinds}}

GeoCalls ==
    SummaryCalls \cup PhysicalCalls \cup InterferenceCalls \cup AssemblyClearanceCalls \cup UndercutCalls \cup ThicknessCalls \cup MachinabilityCalls \cup ClearanceCalls
    \cup DimensionCalls \cup CurvatureCalls

GeoInit ==
    /\ DfmIdle
    /\ DraftIdle
    /\ OhIdle
    /\ ExIdle
    /\ AgIdle
    /\ \E c \in GeoCalls : geo_fn = c.fn /\ geo_in = c.in /\ geo_arg = c.arg
    /\ geo_out = <<>>
    /\ geo_pc = "called"

GeoUndercuts ==
    /\ geo_pc = "called" /\ geo_fn = "detect_undercuts"
    /\ geo_out' = detect_undercuts(geo_in, geo_arg)
    /\ geo_pc' = "returned"
    /\ UNCHANGED <<dfm_vars, draft_vars, ag_vars, ex_vars, oh_vars, geo_fn, geo_in, geo_arg>>

\* The result dictionary is kept as a one-element list.
GeoThickness ==
    /\ geo_pc = "called" /\ geo_fn = "analyze_wall_thickness"
    /\ geo_out' = <<analyze_wall_thickness(geo_in, geo_arg)>>
    /\ geo_pc' = "returned"
    /\ UNCHANGED <<dfm_vars, draft_vars, ag_vars, ex_vars, oh_vars, geo_fn, geo_in, geo_arg>>

GeoMachinability ==
    /\ geo_pc = "called" /\ geo_fn = "analyze_hole_machinability"
    /\ geo_out' = analyze_hole_machinability(geo_in)
    /\ geo_pc' = "returned"
    /\ UNCHANGED <<dfm_vars, draft_vars, ag_vars, ex_vars, oh_vars, geo_fn, geo_in, geo_arg>>

GeoClearance ==
    /\ geo_pc = "called" /\ geo_fn = "analyze_hole_clearance"
    /\ geo_out' = analyze_hole_clearance(geo_in)
    /\ geo_pc' = "returned"
    /\ UNCHANGED <<dfm_vars, draft_vars, ag_vars, ex_vars, oh_vars, geo_fn, geo_in, geo_arg>>

GeoDimensions ==
    /\ geo_pc = "called" /\ geo_fn = "analyze_hole_dimensions"
    /\ geo_out' = analyze_hole_dimensions(geo_in)
    /\ geo_pc' = "returned"
    /\ UNCHANGED <<dfm_vars, draft_vars, ag_vars, ex_vars, oh_vars, geo_fn, geo_in, geo_arg>>

\* analyze_curvature has no try/except: a failed query leaves the call.
GeoCurvature ==
    /\ geo_pc = "called" /\ geo_fn = "analyze_curvature"
    /\ IF CurvatureRaises(geo_in)
       THEN geo_out' = <<>> /\ geo_pc' = "raised"
       ELSE geo_out' = analyze_curvature(geo_in) /\ geo_pc' = "returned"
    /\ UNCHANGED <<dfm_vars, draft_vars, ag_vars, ex_vars, oh_vars, geo_fn, geo_in, geo_arg>>

\* BoundingBox() is outside the try: when it raises, the call raises.
GeoInterferences ==
    /\ geo_pc = "called" /\ geo_fn = "detect_interferences"
    /\ IF InterferencesRaises(geo_in)
       THEN geo_out' = <<>> /\ geo_pc' = "raised"
       ELSE geo_out' = detect_interferences(geo_in) /\ geo_pc' = "returned"
    /\ UNCHANGED <<dfm_vars, draft_vars, ag_vars, ex_vars, oh_vars, geo_fn, geo_in, geo_arg>>

GeoAssemblyClearances ==
    /\ geo_pc = "called" /\ geo_fn = "analyze_clearances"
    /\ geo_out' = analyze_clearances(geo_in, geo_arg)
    /\ geo_pc' = "returned"
    /\ UNCHANGED <<dfm_vars, draft_vars, ag_vars, ex_vars, oh_vars, geo_fn, geo_in, geo_arg>>

\* The result dictionary is kept as a one-element list.
GeoPhysical ==
    /\ geo_pc = "called" /\ geo_fn = "analyze_physical_properties"
    /\ IF PhysicalRaises(geo_in)
       THEN geo_out' = <<>> /\ geo_pc' = "raised"
       ELSE geo_out' = <<analyze_physical_properties(geo_in, geo_arg)>> /\ geo_pc' = "returned"
    /\ UNCHANGED <<dfm_vars, draft_vars, ag_vars, ex_vars, oh_vars, geo_fn, geo_in, geo_arg>>

GeoSummary ==
    /\ geo_pc = "called" /\ geo_fn = "_extract_geometry_summary"
    /\ geo_out' = <<extract_geometry_summary(geo_in)>>
    /\ geo_pc' = "returned"
    /\ UNCHANGED <<dfm_vars, draft_vars, ag_vars, ex_vars, oh_vars, geo_fn, geo_in, geo_arg>>

GeoNext ==
    \/ GeoUndercuts
    \/ GeoSummary
    \/ GeoPhysical
    \/ GeoInterferences
    \/ GeoAssemblyClearances
    \/ GeoCurvature
    \/ GeoDimensions
    \/ GeoClearance
    \/ GeoThickness
    \/ GeoMachinability

SpecGeo == GeoInit /\ [][GeoNext]_vars

\* --------------------------------------------- execute_cadquery_code
\* One call of execute_cadquery_code and the worker process it starts.  ex_in is
\* what the call is given: what the code does in the worker ("result": it runs to
\* the end, "exception": it raises, "crash": the process dies with a non-zero exit
\* code, "hang": it does not end), the size of the pickled result against the
\* capacity of the queue's pipe, whether SIGTERM stops the worker, whether a
\* workplane is given and its export succeeds, and whether Process.start() succeeds.
\* worker is the state of the worker process; a timeout of process.join can expire
\* at any moment at which the worker is alive.
Codes ==
    [outcome : {"result", "exception", "crash", "hang"},
     size : {"small", "large"},
     sigterm : {"stops", "ignored"},
     workplane : {"none", "exported", "export fails"},
     start : {"ok", "fails"}]

Alive(w) == w \in {"running", "flushing"}

WorkerSuccess == [success |-> TRUE, result |-> "result"]

Failure(error) == [success |-> FALSE, error |-> error]

ExecInit ==
    /\ DfmIdle
    /\ DraftIdle
    /\ OhIdle
    /\ GeoIdle
    /\ AgIdle
    /\ ex_in \in Codes
    /\ ex_pc = "export"
    /\ worker = "unstarted"
    /\ result_queue = <<>>
    /\ error_queue = <<>>
    /\ temp_step = FALSE
    /\ in_time = FALSE
    /\ timed_out = FALSE
    /\ ex_ret = NoResult

\* Lines 117-135: the export of the workplane to a temporary file, outside the
\* try/finally; the queues and the Process object.
ExportWorkplane ==
    /\ ex_pc = "export"
    /\ IF ex_in.workplane = "export fails"
       THEN /\ temp_step' = TRUE
            /\ ex_ret' = Failure("Failed to export workplane")
            /\ ex_pc' = "returned"
       ELSE /\ temp_step' = (ex_in.workplane = "exported")
            /\ ex_pc' = "start"
            /\ UNCHANGED ex_ret
    /\ UNCHANGED <<dfm_vars, draft_vars, ag_vars, oh_vars, geo_vars, ex_in, worker, result_queue,
                   error_queue, in_time, timed_out>>

\* process.start(): an exception goes to `except Exception`.
StartWorker ==
    /\ ex_pc = "start"
    /\ IF ex_in.start = "fails"
       THEN /\ ex_ret' = Failure("Subprocess error")
            /\ ex_pc' = "finally"
            /\ UNCHANGED worker
       ELSE /\ worker' = "running"
            /\ ex_pc' = "join"
            /\ UNCHANGED ex_ret
    /\ UNCHANGED <<dfm_vars, draft_vars, ag_vars, oh_vars, geo_vars, ex_in, result_queue, error_queue,
                   temp_step, in_time, timed_out>>

\* _worker_execute to result_queue.put: a small result is written to the pipe and the
\* process exits with code 0; a result larger than the pipe stays with the queue's
\* feeder thread, and the process does not exit before the parent reads the pipe.
WorkerPutsResult ==
    /\ worker = "running" /\ ex_in.outcome = "result"
    /\ in_time' = (ex_pc = "join")
    /\ IF ex_in.size = "small"
       THEN result_queue' = <<WorkerSuccess>> /\ worker' = "exited"
       ELSE worker' = "flushing" /\ UNCHANGED result_queue
    /\ UNCHANGED <<dfm_vars, draft_vars, ag_vars, oh_vars, geo_vars, ex_in, ex_pc, error_queue,
                   temp_step, timed_out, ex_ret>>

\* except Exception in the worker: the error goes to error_queue, exit code 0.
WorkerPutsError ==
    /\ worker = "running" /\ ex_in.outcome = "exception"
    /\ error_queue' = <<Failure("Exception in code")>>
    /\ worker' = "exited"
    /\ UNCHANGED <<dfm_vars, draft_vars, ag_vars, oh_vars, geo_vars, ex_in, ex_pc, result_queue,
                   temp_step, in_time, timed_out, ex_ret>>

WorkerCrashes ==
    /\ worker = "running" /\ ex_in.outcome = "crash"
    /\ worker' = "crashed"
    /\ UNCHANGED <<dfm_vars, draft_vars, ag_vars, oh_vars, geo_vars, ex_in, ex_pc, result_queue,
                   error_queue, temp_step, in_time, timed_out, ex_ret>>

\* process.join(timeout=timeout_seconds) returns: the worker has ended, or the
\* timeout has expired.
Join ==
    /\ ex_pc = "join"
    /\ ex_pc' = "is_alive"
    /\ UNCHANGED <<dfm_vars, draft_vars, ag_vars, oh_vars, geo_vars, ex_in, worker, result_queue,
                   error_queue, temp_step, in_time, timed_out, ex_ret>>

\* if process.is_alive()
CheckAlive ==
    /\ ex_pc = "is_alive"
    /\ timed_out' = Alive(worker)
    /\ ex_pc' = IF Alive(worker) THEN "terminate" ELSE "exitcode"
    /\ UNCHANGED <<dfm_vars, draft_vars, ag_vars, oh_vars, geo_vars, ex_in, worker, result_queue,
                   error_queue, temp_step, in_time, ex_ret>>

\* process.terminate(); process.join(timeout=5)
Terminate ==
    /\ ex_pc = "terminate"
    /\ worker' = IF Alive(worker) /\ ex_in.sigterm = "stops" THEN "terminated" ELSE worker
    /\ ex_pc' = "kill"
    /\ UNCHANGED <<dfm_vars, draft_vars, ag_vars, oh_vars, geo_vars, ex_in, result_queue, error_queue,
                   temp_step, in_time, timed_out, ex_ret>>

\* if process.is_alive(): process.kill(); return the timeout result
KillAndReturn ==
    /\ ex_pc = "kill"
    /\ worker' = IF Alive(worker) THEN "killed" ELSE worker
    /\ ex_ret' = Failure("Execution timed out")
    /\ ex_pc' = "finally"
    /\ UNCHANGED <<dfm_vars, draft_vars, ag_vars, oh_vars, geo_vars, ex_in, result_queue, error_queue,
                   temp_step, in_time, timed_out>>

\* Lines 165-198: the exit code, then result_queue, then error_queue.
CheckExit ==
    /\ ex_pc = "exitcode"
    /\ IF worker = "crashed"
       THEN /\ ex_ret' = IF error_queue # <<>> THEN Head(error_queue)
                         ELSE Failure("CadQuery process crashed")
            /\ error_queue' = <<>>
            /\ UNCHANGED result_queue
       ELSE IF result_queue # <<>>
       THEN /\ ex_ret' = Head(result_queue)
            /\ result_queue' = <<>>
            /\ UNCHANGED error_queue
       ELSE IF error_queue # <<>>
       THEN /\ ex_ret' = Head(error_queue)
            /\ error_queue' = <<>>
            /\ UNCHANGED result_queue
       ELSE /\ ex_ret' = Failure("No result returned from subprocess")
            /\ UNCHANGED <<result_queue, error_queue>>
    /\ ex_pc' = "finally"
    /\ UNCHANGED <<dfm_vars, draft_vars, ag_vars, oh_vars, geo_vars, ex_in, worker, temp_step,
                   in_time, timed_out>>

\* finally: the temporary file is removed; if process.is_alive(): process.terminate()
Finally ==
    /\ ex_pc = "finally"
    /\ temp_step' = FALSE
    /\ worker' = IF Alive(worker) /\ ex_in.sigterm = "stops" THEN "terminated" ELSE worker
    /\ ex_pc' = "returned"
    /\ UNCHANGED <<dfm_vars, draft_vars, ag_vars, oh_vars, geo_vars, ex_in, result_queue, error_queue,
                   in_time, timed_out, ex_ret>>

ExecNext ==
    \/ ExportWorkplane
    \/ StartWorker
    \/ WorkerPutsResult
    \/ WorkerPutsError
    \/ WorkerCrashes
    \/ Join
    \/ CheckAlive
    \/ Terminate
    \/ KillAndReturn
    \/ CheckExit
    \/ Finally

SpecExec == ExecInit /\ [][ExecNext]_vars

\* --------------------------------------------------- CADAgent.analyze_stream
\* One run of analyze_stream.  ag_in says whether initialize() raises (no backend
\* client) and whether the initial screenshot succeeds, fails or raises.  Each call of the LLM raises,
\* or answers without choices, or with a message that has content or not and 0 to
\* MaxToolCalls tool calls; each call of _execute_tool raises or returns a result
\* that leads to a SCREENSHOT, SUGGESTION or MEMORY event or to none.  seen records
\* the events yielded so far: the last one, the numbers of COMPLETE and ERROR events,
\* whether a TOOL_CALL has no TOOL_RESULT yet, whether a TOOL_CALL followed such a
\* TOOL_CALL, whether an event followed COMPLETE, and the number of LLM calls made
\* when ERROR was yielded.
\* self.max_iterations = 10
max_iterations == 10

Yield(type) ==
    [last |-> type,
     complete |-> seen.complete + (IF type = "COMPLETE" THEN 1 ELSE 0),
     error |-> seen.error + (IF type = "ERROR" THEN 1 ELSE 0),
     open_call |-> IF type = "TOOL_CALL" THEN TRUE
                   ELSE IF type = "TOOL_RESULT" THEN FALSE ELSE seen.open_call,
     two_calls |-> seen.two_calls \/ (type = "TOOL_CALL" /\ seen.open_call),
     after_complete |-> seen.after_complete \/ seen.complete > 0,
     calls_at_error |-> IF type = "ERROR" THEN llm_calls ELSE seen.calls_at_error,
     raised |-> seen.raised]

AgentInit ==
    /\ DfmIdle
    /\ DraftIdle
    /\ OhIdle
    /\ GeoIdle
    /\ ExIdle
    /\ ag_in \in {"no backend", "screenshot", "no screenshot", "screenshot raises"}
    /\ ag_pc = "initialize"
    /\ iteration = 0
    /\ llm_calls = 0
    /\ message = NoMessage
    /\ seen = NoEvents

\* await self.initialize(), then the first THINKING event.
Initialize ==
    /\ ag_pc = "initialize"
    /\ IF ag_in = "no backend"
       THEN ag_pc' = "raised" /\ UNCHANGED seen
       ELSE ag_pc' = "screenshot" /\ seen' = Yield("THINKING")
    /\ UNCHANGED <<dfm_vars, draft_vars, oh_vars, geo_vars, ex_vars, ag_in, iteration, llm_calls, message>>

\* Lines 607-628: the initial view.  capture_screenshot creates its output
\* directory outside its handler, so it can raise.
InitialScreenshot ==
    /\ ag_pc = "screenshot"
    /\ seen' = IF ag_in = "screenshot" THEN Yield("SCREENSHOT") ELSE seen
    /\ ag_pc' = IF ag_in = "screenshot raises" THEN "raised" ELSE "starting"
    /\ UNCHANGED <<dfm_vars, draft_vars, oh_vars, geo_vars, ex_vars, ag_in, iteration, llm_calls, message>>

\* Lines 641-646: the second THINKING event; iteration = 0.
StartLoop ==
    /\ ag_pc = "starting"
    /\ seen' = Yield("THINKING")
    /\ iteration' = 0
    /\ ag_pc' = "while"
    /\ UNCHANGED <<dfm_vars, draft_vars, oh_vars, geo_vars, ex_vars, ag_in, llm_calls, message>>

WhileTest_inclusive ==
    /\ ag_pc = "while"
    /\ IF iteration <= max_iterations
       THEN iteration' = iteration + 1 /\ ag_pc' = "llm"
       ELSE ag_pc' = "complete" /\ UNCHANGED iteration
    /\ UNCHANGED <<dfm_vars, draft_vars, oh_vars, geo_vars, ex_vars, ag_in, llm_calls, message, seen>>

\* while iteration < self.max_iterations: iteration += 1
WhileTest ==
    /\ ag_pc = "while"
    /\ IF iteration < max_iterations
       THEN iteration' = iteration + 1 /\ ag_pc' = "llm"
       ELSE ag_pc' = "complete" /\ UNCHANGED iteration
    /\ UNCHANGED <<dfm_vars, draft_vars, oh_vars, geo_vars, ex_vars, ag_in, llm_calls, message, seen>>

\* Lines 674-688: the call raises, or the response has no choices (break), or it
\* has a message.
CallLLM ==
    /\ ag_pc = "llm"
    /\ llm_calls' = llm_calls + 1
    /\ \/ /\ ag_pc' = "except"
          /\ seen' = [seen EXCEPT !.raised = TRUE]
          /\ UNCHANGED message
       \/ /\ ag_pc' = "complete"
          /\ UNCHANGED <<message, seen>>
       \/ /\ \E content \in BOOLEAN, n \in 0..MaxToolCalls :
                 message' = [content |-> content, tool_calls |-> n, left |-> n]
          /\ ag_pc' = "content"
          /\ UNCHANGED seen
    /\ UNCHANGED <<dfm_vars, draft_vars, oh_vars, geo_vars, ex_vars, ag_in, iteration>>

\* if content: yield THINKING
StreamContent ==
    /\ ag_pc = "content"
    /\ seen' = IF message.content THEN Yield("THINKING") ELSE seen
    /\ ag_pc' = "tools"
    /\ UNCHANGED <<dfm_vars, draft_vars, oh_vars, geo_vars, ex_vars, ag_in, iteration, llm_calls, message>>

\* for tool_call in tool_calls: yield TOOL_CALL
ToolCallEvent ==
    /\ ag_pc = "tools"
    /\ IF message.left > 0
       THEN seen' = Yield("TOOL_CALL") /\ ag_pc' = "execute"
       ELSE ag_pc' = "stop" /\ UNCHANGED seen
    /\ UNCHANGED <<dfm_vars, draft_vars, oh_vars, geo_vars, ex_vars, ag_in, iteration, llm_calls, message>>

\* result = await self._execute_tool(tool_name, tool_input), which has no handler
\* around the tool itself; then TOOL_RESULT.
ExecuteTool ==
    /\ ag_pc = "execute"
    /\ \/ /\ ag_pc' = "except"
          /\ seen' = [seen EXCEPT !.raised = TRUE]
       \/ /\ ag_pc' \in {"special", "next tool"}
          /\ seen' = Yield("TOOL_RESULT")
    /\ UNCHANGED <<dfm_vars, draft_vars, oh_vars, geo_vars, ex_vars, ag_in, iteration, llm_calls, message>>

\* Lines 722-744: SCREENSHOT, SUGGESTION or MEMORY after a successful tool of that
\* kind.
SpecialEvent ==
    /\ ag_pc = "special"
    /\ \E type \in {"SCREENSHOT", "SUGGESTION", "MEMORY"} : seen' = Yield(type)
    /\ ag_pc' = "next tool"
    /\ UNCHANGED <<dfm_vars, draft_vars, oh_vars, geo_vars, ex_vars, ag_in, iteration, llm_calls, message>>

NextTool ==
    /\ ag_pc = "next tool"
    /\ message' = [message EXCEPT !.left = message.left - 1]
    /\ ag_pc' = "tools"
    /\ UNCHANGED <<dfm_vars, draft_vars, oh_vars, geo_vars, ex_vars, ag_in, iteration, llm_calls, seen>>

\* if not tool_calls: break
StopTest ==
    /\ ag_pc = "stop"
    /\ ag_pc' = IF message.tool_calls = 0 THEN "complete" ELSE "while"
    /\ UNCHANGED <<dfm_vars, draft_vars, oh_vars, geo_vars, ex_vars, ag_in, iteration, llm_calls, message, seen>>

\* except Exception: yield ERROR; break
Except ==
    /\ ag_pc = "except"
    /\ seen' = Yield("ERROR")
    /\ ag_pc' = "complete"
    /\ UNCHANGED <<dfm_vars, draft_vars, oh_vars, geo_vars, ex_vars, ag_in, iteration, llm_calls, message>>

\* The COMPLETE event after the loop; the generator ends.
Complete ==
    /\ ag_pc = "complete"
    /\ seen' = Yield("COMPLETE")
    /\ ag_pc' = "ended"
    /\ UNCHANGED <<dfm_vars, draft_vars, oh_vars, geo_vars, ex_vars, ag_in, iteration, llm_calls, message>>

AgentNext ==
    \/ Initialize
    \/ InitialScreenshot
    \/ StartLoop
    \/ WhileTest
    \/ CallLLM
    \/ StreamContent
    \/ ToolCallEvent
    \/ ExecuteTool
    \/ SpecialEvent
    \/ NextTool
    \/ StopTest
    \/ Except
    \/ Complete

SpecAgent == AgentInit /\ [][AgentNext]_vars

\* ------------------------------------------------------------------ claims
RuleRow(p) ==
    CASE p = "CNC_MACHINING" -> {"CNC_001", "CNC_002", "CNC_003", "CNC_004", "CNC_005"}
      [] p = "INJECTION_MOLDING" ->
             {"IM_001", "IM_002", "IM_003", "IM_004", "IM_005", "IM_006", "IM_007"}
      [] p = "FDM_3D_PRINTING" -> {"FDM_001", "FDM_002", "FDM_003"}
      [] OTHER -> {}

UniversalRow == {"GEN_001", "GEN_002", "GEN_003"}

AssemblyRow == {"ASM_001", "ASM_002"}

ProcessCalls == {CncCalls[k] : k \in DOMAIN CncCalls} \cup {ImCalls[k] : k \in DOMAIN ImCalls}
                \cup {FdmCalls[k] : k \in DOMAIN FdmCalls}

RuleIds(is) == {is[k].ruleId : k \in DOMAIN is}

CountRule(is, id) == Cardinality({k \in DOMAIN is : is[k].ruleId = id})

Ran == {ran[k] : k \in DOMAIN ran}

\* A workplane none of whose queries raises.
QueriesSucceed(wp) ==
    /\ \A i \in DOMAIN wp.faces : wp.faces[i].fails = {}
    /\ \A k \in DOMAIN wp.edges : wp.edges[k].fails = {}
    /\ \A i \in DOMAIN wp.solids : wp.solids[i].fails = {}
    /\ \A q \in DOMAIN wp.pairs : wp.pairs[q].fails = {}
    /\ wp.val.fails = {}

\* C1: under a recognized process, every Issue of the returned list carries a ruleId
\* of that process's row, of the universal row or of the assembly row, and never one
\* of another process's row.
C1_RuleIdsOfOwnRow ==
    (pc = "done" /\ process \in RecognizedProcesses)
        => RuleIds(issues) \subseteq RuleRow(process) \cup UniversalRow \cup AssemblyRow

C1_Witness ==
    /\ pc = "done"
    /\ process = "FDM_3D_PRINTING"
    /\ {"FDM_001", "FDM_003", "GEN_003"} \subseteq RuleIds(issues)

\* C2: a single failing geometric query never makes analyze_dfm raise: the call
\* returns a list, having run every universal check.
C2_QueryFailureNeverAborts ==
    /\ pc # "raised"
    /\ pc = "done" =>
           {"analyze_curvature", "analyze_surface_area_efficiency", "analyze_solids",
            "detect_small_features"} \subseteq Ran

\* C3: with an unrecognized process, on a workplane whose queries all succeed,
\* analyze_dfm does not raise, calls no process-specific analyzer and returns only
\* Issues of the universal checks, also for a workplane of several solids.
C3_UnrecognizedOnlyUniversal ==
    (pc # "idle" /\ process \notin RecognizedProcesses /\ QueriesSucceed(workplane))
        => /\ pc # "raised"
           /\ Ran \cap ProcessCalls = {}
           /\ pc = "done" => RuleIds(issues) \subseteq UniversalRow

\* C4: every Issue has a non-empty ruleId, ruleName and recommendation and a severity
\* among ERROR, WARNING, INFO; and no Issue is merged or dropped: each finding of hole
\* machinability, hole clearance and small-feature detection has its own Issue, also
\* when several findings are about the same face.
C4_IssuesWellFormed ==
    /\ \A k \in DOMAIN issues :
           /\ issues[k].ruleId # ""
           /\ issues[k].ruleName # ""
           /\ issues[k].recommendation # ""
           /\ issues[k].severity \in {"ERROR", "WARNING", "INFO"}
    /\ pc = "done" =>
           CountRule(issues, "GEN_003") = Len(detect_small_features(workplane))
    /\ (pc = "done" /\ process = "CNC_MACHINING") =>
           /\ CountRule(issues, "CNC_002") = Len(analyze_hole_machinability(workplane))
           /\ CountRule(issues, "CNC_003") = Len(analyze_hole_clearance(workplane))

\* One hole face with three machinability findings and a clearance finding.
C4_Witness ==
    /\ pc = "done"
    /\ process = "CNC_MACHINING"
    /\ Len(workplane.faces) = 2
    /\ Cardinality({f.face_id : f \in {analyze_hole_machinability(workplane)[k] :
                                          k \in DOMAIN analyze_hole_machinability(workplane)}}) = 1
    /\ CountRule(issues, "CNC_002") >= 2
    /\ CountRule(issues, "CNC_003") = 1

\* C6: with zero or one solid, interference and clearance detection are not called
\* and no ASM_001 or ASM_002 Issue is in the list.
C6_AssemblyOnlyForSeveralSolids ==
    Len(workplane.solids) <= 1
        => /\ RuleIds(issues) \cap AssemblyRow = {}
           /\ Ran \cap {"detect_interferences", "analyze_clearances"} = {}

C6_Witness ==
    /\ pc = "done"
    /\ Len(workplane.solids) = 1
    /\ "analyze_solids" \in Ran

\* C7: the 50 x 30 x 20 box under FDM_3D_PRINTING returns no wall-thickness Issue, no
\* overhang Issue and no undercut Issue.
C7_BoxFdmClean ==
    (pc = "done" /\ workplane = Box50x30x20 /\ process = "FDM_3D_PRINTING")
        => RuleIds(issues) \cap {"FDM_003", "FDM_001", "IM_002"} = {}

\* C8: a face whose queries succeed is flagged exactly when some sample with a
\* downward normal (n.buildDir < 0) has 90 - acos(|n.buildDir|) above the threshold; at
\* the default threshold a downward face at 60 degrees is flagged and one at 30 degrees
\* is not; a face with no downward sample is never flagged.
OhFlagged == {oh_out[k].face_id : k \in DOMAIN oh_out}

OhShouldFlag(face, max_angle) ==
    \E k \in DOMAIN SamplePoints(face) :
        /\ SamplePoints(face)[k] < 0
        /\ 90000 - AcosMilliDeg(Abs(SamplePoints(face)[k])) > max_angle

C8_OverhangFlaggedExactly ==
    oh_pc = "returned" =>
        \A i \in DOMAIN oh_faces :
            /\ oh_faces[i].fails = {} =>
                   (FaceId(i) \in OhFlagged <=> OhShouldFlag(oh_faces[i], oh_max))
            /\ (oh_max = 45000 /\ oh_faces[i] = OhFace("PLANE", <<-866025>>, {}))
                   => FaceId(i) \in OhFlagged
            /\ (oh_max = 45000 /\ oh_faces[i] = OhFace("PLANE", <<-500000>>, {}))
                   => FaceId(i) \notin OhFlagged
            /\ (\A k \in DOMAIN SamplePoints(oh_faces[i]) : SamplePoints(oh_faces[i])[k] >= 0)
                   => FaceId(i) \notin OhFlagged

\* A 60 degree face flagged next to a 30 degree face that is not.
C8_Witness ==
    /\ oh_pc = "returned"
    /\ oh_max = 45000
    /\ oh_faces = <<OhFace("PLANE", <<-500000>>, {}), OhFace("PLANE", <<-866025>>, {})>>
    /\ OhFlagged = {FaceId(2)}

\* C9: the recommendation is the CRITICAL text below 0, the WARNING text from 0 to
\* below 0.5, the CAUTION text from 0.5 to below 1.0 and "OK" from 1.0 on.
C9_DraftBands ==
    rec_out # "" =>
        /\ angle_in < 0 <=>
               rec_out = "CRITICAL: Negative draft - part will not eject. Add positive draft."
        /\ (0 <= angle_in /\ angle_in < 500) <=>
               rec_out = "WARNING: Minimal draft - ejection difficult. Recommend 1-2 deg."
        /\ (500 <= angle_in /\ angle_in < 1000) <=>
               rec_out = "CAUTION: Low draft - may cause ejection marks. Consider 2 deg+."
        /\ angle_in >= 1000 <=> rec_out = "OK"

C9_Witness == angle_in = 500 /\ rec_out # "" /\ rec_out # "OK"

\* C10: analyze_draft_angles returns one record per face whose queries succeed (six
\* for a box), in face order; draft_angle is the least 90 - acos(|n.d|) over the face's samples;
\* needs_draft holds exactly below 0.5 degrees; and under INJECTION_MOLDING the list
\* has one IM_001 Issue per record that needs draft.
DraftOk(wp) == {i \in DOMAIN wp.faces : ~SamplingFails(wp.faces[i])}

C10_DraftRecords ==
    pc # "idle" =>
        \A pull \in {1, -1} :
            LET records == analyze_draft_angles(workplane, pull)
                faces == workplane.faces
            IN  /\ Len(records) = Cardinality(DraftOk(workplane))
                /\ workplane = Box50x30x20 => Len(records) = 6
                /\ {records[k].face_id : k \in DOMAIN records}
                       = {FaceId(i) : i \in DraftOk(workplane)}
                /\ \A k \in DOMAIN records : \A l \in DOMAIN records :
                       k < l => records[k].face_id[2] < records[l].face_id[2]
                /\ \A k \in DOMAIN records :
                       LET samples == SamplePoints(faces[records[k].face_id[2] + 1])
                           draft(n) == 90000 - AcosMilliDeg(Min2(Abs(samples[n] * pull), 1000000))
                       IN  /\ \A n \in DOMAIN samples : records[k].draft_angle <= draft(n)
                           /\ \E n \in DOMAIN samples : records[k].draft_angle = draft(n)
                           /\ records[k].needs_draft <=> records[k].draft_angle < 500
                /\ (pull = 1 /\ process = "INJECTION_MOLDING" /\ pc = "done") =>
                       CountRule(issues, "IM_001")
                           = Cardinality({k \in DOMAIN records : records[k].needs_draft})

\* A freeform face whose worst sample is not its center, next to a face that needs
\* no draft.
C10_Witness ==
    /\ pc = "done"
    /\ process = "INJECTION_MOLDING"
    /\ workplane.faces = <<FreeformFace, TopFace>>
    /\ CountRule(issues, "IM_001") = 1

\* C11: detect_undercuts flags a face whose normal query succeeds exactly when
\* n.d < -0.05, once, with severity high exactly when n.d < -0.7 and medium otherwise;
\* and a face flagged for pull direction d is not flagged for -d.
UndercutIds(out) == {out[k].face_id : k \in DOMAIN out}

ConcaveLineEdge(e) == e.geomType = "LINE" /\ Len(e.faces) = 2 /\ e.inside

EdgeQueriesSucceed(wp, e) ==
    /\ e.fails = {}
    /\ \A n \in DOMAIN e.faces : "normalAt" \notin wp.faces[e.faces[n]].fails

C12_SharpCornersByInsideTest ==
    pc # "idle" =>
        LET out == detect_sharp_internal_corners(workplane)
            edges == workplane.edges
            must == {k \in DOMAIN edges :
                        /\ ConcaveLineEdge(edges[k])
                        /\ EdgeQueriesSucceed(workplane, edges[k])
                        /\ Abs(edges[k].dot) <= 999000}
            may == {k \in DOMAIN edges : ConcaveLineEdge(edges[k])}
        IN  /\ Cardinality(must) <= Len(out)
            /\ Len(out) <= Cardinality(may)
            /\ \A k \in DOMAIN out :
                   \E e \in may : out[k].angle = CornerAngle(edges[e].dot)
            /\ (pc = "done" /\ process = "CNC_MACHINING") =>
                   CountRule(issues, "CNC_001") = Len(out)

\* A concave right-angle edge under CNC_MACHINING: one CNC_001.
C12_Witness ==
    /\ pc = "done"
    /\ process = "CNC_MACHINING"
    /\ workplane.edges = <<Edge("LINE", <<1, 2>>, 0, TRUE, {})>>
    /\ CountRule(issues, "CNC_001") = 1

\* C13: on a workplane whose Area queries succeed, the sampled faces are the
\* sample_points faces of largest area; the local thickness of a sampled face is the
\* least distance from its center to another face that passes the facing test
\* (dist_in < dist), whatever the order of the faces; min/max/avg are the minimum,
\* maximum and mean of the valid local thicknesses; and with no valid one they are
\* the minimum, maximum and mean of the bounding-box extents.
FacingFaces(wp, i) ==
    {j \in DOMAIN wp.faces : j # i /\ wp.distIn[i][j] < wp.dist[i][j]}

LeastFacingDist(wp, i) ==
    IF FacingFaces(wp, i) = {} THEN Inf
    ELSE SetMin({wp.dist[i][j] : j \in FacingFaces(wp, i)})

C13_WallThicknessAggregates ==
    (/\ geo_pc = "returned" /\ geo_fn = "analyze_wall_thickness"
     /\ \A i \in DOMAIN geo_in.faces : "Area" \notin geo_in.faces[i].fails) =>
        LET wp == geo_in
            faces == geo_in.faces
            result == geo_out[1]
            sampled == SampledFaces(faces, geo_arg)
            valid == {i \in sampled : /\ ~ThicknessFails(wp, i)
                                      /\ LeastFacingDist(wp, i) < Inf
                                      /\ LeastFacingDist(wp, i) > 0}
            local == [i \in valid |-> LeastFacingDist(wp, i)]
            values == {local[i] : i \in valid}
        IN  /\ Cardinality(sampled) = Min2(geo_arg, Len(faces))
            /\ \A i \in sampled : \A j \in DOMAIN faces \ sampled :
                   faces[i].area >= faces[j].area
            /\ \A i \in DOMAIN faces :
                   LocalThickness(wp, i, 1, Inf) = LeastFacingDist(wp, i)
            /\ valid # {} =>
                   /\ result.min_thickness = SetMin(values)
                   /\ result.max_thickness = SetMax(values)
                   /\ result.avg_thickness = SumOver(local, valid) \div Cardinality(valid)
            /\ (valid = {} /\ ~ValFails(wp, "BoundingBox")) =>
                   /\ result.min_thickness = Min2(wp.val.xlen, Min2(wp.val.ylen, wp.val.zlen))
                   /\ result.max_thickness = Max2(wp.val.xlen, Max2(wp.val.ylen, wp.val.zlen))
                   /\ result.avg_thickness = (wp.val.xlen + wp.val.ylen + wp.val.zlen) \div 3

\* Three faces, two sampled: the thin wall face is left out for its smaller area,
\* the top face sees the thin wall face (19.5 mm) and the bottom face sees it too
\* (0.5 mm).
C13_Witness ==
    /\ geo_pc = "returned" /\ geo_fn = "analyze_wall_thickness"
    /\ geo_arg = 2
    /\ geo_in.faces = <<TopFace, ThinWallFace, BottomFace>>
    /\ geo_out[1].min_thickness = 500
    /\ geo_out[1].max_thickness = 19500
    /\ geo_out[1].avg_thickness = 10000

\* C14: under a recognized process the minimum-wall-thickness Issue of that process
\* (CNC_005, IM_006, FDM_003) is in the list once when analyze_wall_thickness returned
\* a non-null minimum below 0.8 mm and not at all otherwise; with a null minimum the
\* list has no wall-thickness Issue of any kind.
MinWallRule(p) ==
    CASE p = "CNC_MACHINING" -> "CNC_005"
      [] p = "INJECTION_MOLDING" -> "IM_006"
      [] p = "FDM_3D_PRINTING" -> "FDM_003"

C14_MinWallIssue ==
    (pc = "done" /\ process \in RecognizedProcesses) =>
        LET min_thick == analyze_wall_thickness(workplane, sample_points).min_thickness
        IN  /\ CountRule(issues, MinWallRule(process))
                   = (IF min_thick # None /\ min_thick < 800 THEN 1 ELSE 0)
            /\ min_thick = None =>
                   RuleIds(issues) \cap {"CNC_005", "IM_006", "IM_007", "FDM_003"} = {}

\* A wall of 0.799 mm under CNC_MACHINING.
C14_Witness ==
    /\ pc = "done"
    /\ process = "CNC_MACHINING"
    /\ workplane.faces = <<BottomFace, WallAt(799)>>
    /\ CountRule(issues, "CNC_005") = 1

\* C15: on a workplane whose hole queries succeed, analyze_hole_machinability has
\* findings only for features typed HOLE with diameter > 0; such a hole has one
\* DEEP_HOLE finding exactly when depth > 5 x diameter (high exactly above 10 x,
\* medium otherwise) and one SMALL_HOLE finding exactly when diameter < 1.5 mm; a hole
\* with depth = 2 x diameter has no DEEP_HOLE finding and a boss has no finding.
HoleQueriesSucceed(wp) ==
    \A i \in DOMAIN wp.faces : wp.faces[i].fails \cap {"geomType", "Area"} = {}

FindingsOf(out, face_id, type) ==
    {k \in DOMAIN out : out[k].face_id = face_id /\ out[k].type = type}

C15_HoleMachinability ==
    (geo_pc = "returned" /\ geo_fn = "analyze_hole_machinability"
        /\ HoleQueriesSucceed(geo_in)) =>
        LET features == analyze_hole_dimensions(geo_in)
        IN  /\ \A k \in DOMAIN geo_out :
                   \E f \in DOMAIN features :
                       /\ features[f].face_id = geo_out[k].face_id
                       /\ features[f].type = "HOLE"
                       /\ features[f].diameter > 0
            /\ \A f \in DOMAIN features :
                   LET hole == features[f]
                       deep == FindingsOf(geo_out, hole.face_id, "DEEP_HOLE")
                       small == FindingsOf(geo_out, hole.face_id, "SMALL_HOLE")
                   IN  (hole.type = "HOLE" /\ hole.diameter > 0) =>
                           /\ Cardinality(deep)
                                  = (IF hole.height > 5 * hole.diameter THEN 1 ELSE 0)
                           /\ \A k \in deep :
                                  /\ geo_out[k].severity = "high"
                                         <=> hole.height > 10 * hole.diameter
                                  /\ geo_out[k].severity = "medium"
                                         <=> ~(hole.height > 10 * hole.diameter)
                           /\ Cardinality(small) = (IF hole.diameter < 1500 THEN 1 ELSE 0)
                           /\ hole.height = 2 * hole.diameter => deep = {}

\* A 1 mm hole just over 10 diameters deep next to a boss of the same size: DEEP_HOLE
\* (high) and SMALL_HOLE for the hole, nothing for the boss.
C15_Witness ==
    /\ geo_pc = "returned" /\ geo_fn = "analyze_hole_machinability"
    /\ geo_in.faces = <<CylFace(500, 31420, "REVERSED"), CylFace(500, 31420, "FORWARD")>>
    /\ Len(geo_out) = 2
    /\ geo_out[1].type = "DEEP_HOLE" /\ geo_out[1].severity = "high"
    /\ geo_out[2].type = "SMALL_HOLE"
    /\ geo_out[2].face_id = FaceId(1)

\* C16: a hole whose diameter is within 0.05 mm of a tap-drill size has exactly one
\* POTENTIAL_TAPPED_HOLE finding, naming that size's tap (5.0 mm: M6), and under
\* CNC_MACHINING the CNC_002 Issue built from that finding has severity INFO.
TappedHoleFindings(wp) ==
    LET features == analyze_hole_dimensions(wp)
        findings == analyze_hole_machinability(wp)
    IN  \A f \in DOMAIN features : \A t \in DOMAIN taps :
            (/\ features[f].type = "HOLE"
             /\ features[f].diameter > 0
             /\ Abs(features[f].diameter - taps[t][1]) < 50) =>
                LET tapped == FindingsOf(findings, features[f].face_id, "POTENTIAL_TAPPED_HOLE")
                IN  /\ Cardinality(tapped) = 1
                    /\ \A k \in tapped : findings[k].tap = taps[t][2]
                    /\ features[f].diameter = 5000 =>
                           \A k \in tapped : findings[k].tap = "M6"

C16_TappedHoleIsInfo ==
    (pc = "done" /\ process = "CNC_MACHINING" /\ HoleQueriesSucceed(workplane)) =>
        /\ TappedHoleFindings(workplane)
        /\ \A k \in DOMAIN issues :
               (/\ issues[k].ruleId = "CNC_002"
                /\ issues[k].recommendation
                       = "Hole matches tap drill size. Ensure appropriate thread clearance and depth.")
                   => issues[k].severity = "INFO"

\* C17: for each hole whose queries succeed, with m the least (distance from the hole
\* center - hole radius) over the faces that are not hole faces, there is one
\* HOLE_EDGE_CLEARANCE finding exactly when m < 1.5 x diameter, of severity high when
\* m < diameter and medium otherwise; hole faces never contribute to m.
NonHoleFaces(wp) ==
    {i \in DOMAIN wp.faces :
        ~(wp.faces[i].geomType = "CYLINDER" /\ wp.faces[i].orientation = "REVERSED")}

LeastEdgeClearance(wp, f_idx, radius) ==
    IF NonHoleFaces(wp) = {} THEN Inf
    ELSE SetMin({wp.dist[f_idx][i] - radius : i \in NonHoleFaces(wp)})

C17_ClearanceOverNonHoleFaces ==
    (geo_pc = "returned" /\ geo_fn = "analyze_hole_clearance" /\ HoleQueriesSucceed(geo_in)) =>
        LET features == analyze_hole_dimensions(geo_in)
        IN  \A f \in DOMAIN features :
                LET hole == features[f]
                    f_idx == hole.face_id[2] + 1
                    m == LeastEdgeClearance(geo_in, f_idx, hole.radius)
                    found == FindingsOf(geo_out, hole.face_id, "HOLE_EDGE_CLEARANCE")
                IN  (hole.type = "HOLE" /\ ~ClearanceFails(geo_in, f_idx)) =>
                        /\ Cardinality(found) = (IF 2 * m < 3 * hole.diameter THEN 1 ELSE 0)
                        /\ \A k \in found :
                               /\ geo_out[k].severity = "high" <=> m < hole.diameter
                               /\ geo_out[k].severity = "medium" <=> ~(m < hole.diameter)

\* C18: for the 20 x 20 x 10 box with a 5 mm through-hole, the centered hole has no
\* HOLE_EDGE_CLEARANCE finding and the hole moved off center, closer than 7.5 mm to a
\* side wall, has one.
C18_CenteredHoleIsClear ==
    (geo_pc = "returned" /\ geo_fn = "analyze_hole_clearance") =>
        /\ geo_in = HoledBox(0) =>
               FindingsOf(geo_out, FaceId(7), "HOLE_EDGE_CLEARANCE") = {}
        /\ \A cx \in HoleOffsets \ {0} :
               geo_in = HoledBox(cx) =>
                   FindingsOf(geo_out, FaceId(7), "HOLE_EDGE_CLEARANCE") # {}

\* C19: on a workplane whose queries succeed, analyze_hole_dimensions returns one
\* feature per cylindrical face, in face order, and none for another face (none for a
\* plain box); the feature is typed HOLE exactly when the face's orientation is
\* REVERSED and BOSS otherwise; with a circular edge of radius r its diameter is 2 r
\* (5.0 for the 5 mm hole) and its height is area / (2 pi r).
CylinderFaces(wp) == {i \in DOMAIN wp.faces : wp.faces[i].geomType = "CYLINDER"}

C19_HoleDimensions ==
    (geo_pc = "returned" /\ geo_fn = "analyze_hole_dimensions" /\ HoleQueriesSucceed(geo_in)) =>
        LET faces == geo_in.faces
        IN  /\ Len(geo_out) = Cardinality(CylinderFaces(geo_in))
            /\ {geo_out[k].face_id : k \in DOMAIN geo_out}
                   = {FaceId(i) : i \in CylinderFaces(geo_in)}
            /\ \A k \in DOMAIN geo_out : \A l \in DOMAIN geo_out :
                   k < l => geo_out[k].face_id[2] < geo_out[l].face_id[2]
            /\ geo_in = BoxWorkplane(10000, 10000, 5000) => geo_out = <<>>
            /\ \A k \in DOMAIN geo_out :
                   LET face == faces[geo_out[k].face_id[2] + 1]
                   IN  /\ geo_out[k].type = "HOLE" <=> face.orientation = "REVERSED"
                       /\ geo_out[k].type = "BOSS" <=> face.orientation # "REVERSED"
                       /\ face.radius > 0 =>
                              /\ geo_out[k].diameter = 2 * face.radius
                              /\ geo_out[k].height
                                     = (((1000 * face.area) \div face.radius) * 113) \div 710
                       /\ face = HoleFace =>
                              geo_out[k].diameter = 5000 /\ geo_out[k].height = 10000

\* The 5 mm hole next to a boss of the same size.
C19_Witness ==
    /\ geo_pc = "returned" /\ geo_fn = "analyze_hole_dimensions"
    /\ geo_in.faces = <<HoleFace, CylFace(2500, 157080, "FORWARD")>>
    /\ Len(geo_out) = 2
    /\ geo_out[1].type = "HOLE" /\ geo_out[1].diameter = 5000
    /\ geo_out[2].type = "BOSS"

\* C20: analyze_curvature reports every non-planar face once and no planar face,
\* with complexity medium when the face is a cylinder, cone or sphere and high for
\* every other non-planar face (torus or freeform); no reported face has another
\* complexity value.
C20_CurvatureClassification ==
    (geo_pc = "returned" /\ geo_fn = "analyze_curvature") =>
        LET faces == geo_in.faces
        IN  /\ \A i \in DOMAIN faces :
                Cardinality(FindingsOf(geo_out, FaceId(i), faces[i].geomType))
                    = (IF faces[i].geomType # "PLANE" THEN 1 ELSE 0)
            /\ \A k \in DOMAIN geo_out :
                /\ geo_out[k].type # "PLANE"
                /\ geo_out[k].complexity
                       = (IF geo_out[k].type \in {"CYLINDER", "CONE", "SPHERE"}
                          THEN "medium" ELSE "high")

\* C21: the returned list holds one GEN_002 Issue when the first object's area,
\* volume and bounding box are read, the volume is positive and
\* (area / volume) x (mean of the three extents) >= 10, and none otherwise (volume 0,
\* or a failed query); the efficiency step never makes analyze_dfm raise.
C21_EfficiencyAtTen ==
    LET v == workplane.val
        read == v.present /\ v.fails \cap {"Area", "Volume", "BoundingBox"} = {}
    IN  /\ pc = "done" =>
               CountRule(issues, "GEN_002")
                   = (IF read /\ v.volume > 0
                            /\ v.area * (v.xlen + v.ylen + v.zlen) >= 3 * 10 * v.volume
                      THEN 1 ELSE 0)
        /\ pc = "raised" => ran[Len(ran)] # "analyze_surface_area_efficiency"
        /\ (pc \in {"assembly", "small"} /\ ~(read /\ v.volume > 0))
               => CountRule(issues, "GEN_002") = 0

\* The 20 x 60 x 10 mm box, whose product is exactly 10, is reported.
C21_Witness ==
    /\ pc = "done"
    /\ workplane.val = TenVal
    /\ CountRule(issues, "GEN_002") = 1

\* C22: when detect_interferences returns, every finding names a pair of solids
\* <<i, j>> with i < j, and each unordered pair of distinct solids has one
\* INTERFERENCE finding when its bounding boxes overlap and the intersection volume
\* is positive (relative_severity = volume / min(v1, v2), high exactly above 1 %), one
\* POTENTIAL_INTERFERENCE finding without volume when the boxes overlap and intersect
\* raises, and none otherwise.
C22_Interferences ==
    (geo_pc = "returned" /\ geo_fn = "detect_interferences") =>
        LET n == Len(geo_in.solids)
            Of(p) == {k \in DOMAIN geo_out : geo_out[k].solids = <<p[1] - 1, p[2] - 1>>}
        IN  /\ \A k \in DOMAIN geo_out :
                   \E p \in SolidPairs(n) : k \in Of(p)
            /\ \A p \in SolidPairs(n) :
                   LET pair == geo_in.pairs[p]
                       least == Min2(geo_in.solids[p[1]].volume, geo_in.solids[p[2]].volume)
                   IN  IF pair.overlap /\ "intersect" \in pair.fails
                       THEN /\ Cardinality(Of(p)) = 1
                            /\ \A k \in Of(p) :
                                   /\ geo_out[k].type = "POTENTIAL_INTERFERENCE"
                                   /\ "volume" \notin DOMAIN geo_out[k]
                       ELSE IF pair.overlap /\ pair.ivol > 0
                       THEN /\ Cardinality(Of(p)) = 1
                            /\ \A k \in Of(p) :
                                   /\ geo_out[k].type = "INTERFERENCE"
                                   /\ geo_out[k].volume = pair.ivol
                                   /\ geo_out[k].relative_severity = (1000 * pair.ivol) \div least
                                   /\ geo_out[k].severity
                                          = (IF 100 * pair.ivol > least THEN "high" ELSE "medium")
                       ELSE Of(p) = {}

\* Two unit cubes overlapping by 0.5 mm^3: one finding, volume 0.5, relative
\* severity 0.5 (in thousandths), high.
C22_Witness ==
    /\ geo_pc = "returned" /\ geo_fn = "detect_interferences"
    /\ geo_in.solids = <<Solid(1000, {}), Solid(1000, {})>>
    /\ Len(geo_out) = 1
    /\ geo_out[1].type = "INTERFERENCE"
    /\ geo_out[1].solids = <<0, 1>>
    /\ geo_out[1].volume = 500
    /\ geo_out[1].relative_severity = 500
    /\ geo_out[1].severity = "high"

\* C23: analyze_clearances has one LOW_CLEARANCE finding for an unordered pair of
\* solids whose distance is read exactly when 1e-6 mm <= distance < min_clearance, and
\* none otherwise; the finding is high exactly when distance < min_clearance / 2 and
\* medium otherwise.  Solids 0.3 mm apart are flagged under the default 0.5 mm, solids
\* 0.6 mm apart and touching solids are not.
PairFindings(out, p) == {k \in DOMAIN out : out[k].solids = <<p[1] - 1, p[2] - 1>>}

Contains(box, inner) ==
    /\ box.xmin <= inner.xmin /\ inner.xmax <= box.xmax
    /\ box.ymin <= inner.ymin /\ inner.ymax <= box.ymax
    /\ box.zmin <= inner.zmin /\ inner.zmax <= box.zmax

PhysicalTotals(out, solids, density) ==
    LET total == SeqSum([i \in DOMAIN solids |-> solids[i].volume])
    IN  /\ out.total_volume = total
        /\ out.total_mass = total * density
        /\ out.total_mass = SeqSum([i \in DOMAIN out.solids |-> out.solids[i].mass])
        /\ Len(out.solids) = Len(solids)
        /\ out.center_of_gravity
               = (IF total > 0
                  THEN [a \in 1..3 |->
                           SeqSum([i \in DOMAIN solids |-> solids[i].center[a] * solids[i].volume])
                               \div total]
                  ELSE <<0, 0, 0>>)

C24_PhysicalAggregates ==
    (geo_pc = "returned" /\ geo_fn = "analyze_physical_properties" /\ geo_in.solids # <<>>) =>
        /\ PhysicalTotals(geo_out[1], geo_in.solids, geo_arg)
        /\ \A i \in DOMAIN geo_in.solids :
               Contains(geo_out[1].bounding_box, geo_in.solids[i].bbox)

\* C25: on a workplane without solids analyze_physical_properties does not raise and
\* returns total volume 0, total mass 0, center of gravity (0, 0, 0) and no solids;
\* _extract_geometry_summary never raises, and when the first object's bounding box
\* or volume or a face's area cannot be read it returns a null bounding box with
\* volume, area, face count and edge count 0.
Unreadable(wp) ==
    \/ ~wp.val.present
    \/ wp.val.fails \cap {"BoundingBox", "Volume"} # {}
    \/ \E i \in DOMAIN wp.faces : "Area" \in wp.faces[i].fails

C25_DegenerateSummaries ==
    /\ (geo_fn = "analyze_physical_properties" /\ geo_in.solids = <<>>) =>
           /\ geo_pc # "raised"
           /\ geo_pc = "returned" =>
                  /\ geo_out[1].total_volume = 0
                  /\ geo_out[1].total_mass = 0
                  /\ geo_out[1].center_of_gravity = <<0, 0, 0>>
                  /\ geo_out[1].solids = <<>>
    /\ geo_fn = "_extract_geometry_summary" =>
           /\ geo_pc # "raised"
           /\ (geo_pc = "returned" /\ Unreadable(geo_in)) =>
                  /\ geo_out[1].volume = 0
                  /\ geo_out[1].surface_area = 0
                  /\ geo_out[1].face_count = 0
                  /\ geo_out[1].edge_count = 0
                  /\ geo_out[1].bounding_box = None

\* The summary of cq.Workplane("XY"), which holds nothing.
C25_Witness ==
    /\ geo_pc = "returned" /\ geo_fn = "_extract_geometry_summary"
    /\ geo_in = EmptyWorkplane
    /\ geo_out[1].bounding_box = None
    /\ geo_out[1].face_count = 0

\* C26: in the returned list the process-specific Issues come first, in the rule
\* order of the process row, then GEN_001, GEN_002, GEN_003 in that order, then
\* ASM_001, then ASM_002: no Issue precedes an Issue of an earlier place.
DocumentedOrder ==
    <<"CNC_001", "CNC_002", "CNC_003", "CNC_004", "CNC_005",
      "IM_001", "IM_002", "IM_003", "IM_004", "IM_005", "IM_006", "IM_007",
      "FDM_001", "FDM_002", "FDM_003",
      "GEN_001", "GEN_002", "GEN_003", "ASM_001", "ASM_002">>

PlaceOf(rule_id) == CHOOSE n \in DOMAIN DocumentedOrder : DocumentedOrder[n] = rule_id

C26_DocumentedOrder ==
    pc = "done" =>
        \A k, l \in DOMAIN issues :
            k < l => PlaceOf(issues[k].ruleId) <= PlaceOf(issues[l].ruleId)

\* C27: in the returned list every Issue built from a finding that identifies a face
\* (draft, undercut, overhang, hole machinability, hole clearance, boss, small
\* feature, complex surface) lists the id of a face of the model in affectedFeatures,
\* and affectedFeatures is empty only for the whole-part Issues (wall thickness,
\* uniformity, material efficiency).
FaceRules ==
    {"IM_001", "IM_002", "FDM_001", "CNC_002", "CNC_003", "IM_005", "FDM_002", "IM_003",
     "GEN_003", "GEN_001"}

WholePartRules == {"CNC_005", "IM_006", "IM_007", "FDM_003", "GEN_002"}

C27_FaceIssuesNameTheirFace ==
    pc = "done" =>
        \A k \in DOMAIN issues :
            /\ issues[k].ruleId \in FaceRules =>
                   \E n \in DOMAIN issues[k].affectedFeatures, i \in DOMAIN workplane.faces :
                       issues[k].affectedFeatures[n] = FaceId(i)
            /\ issues[k].affectedFeatures = <<>> => issues[k].ruleId \in WholePartRules

\* C28: when execute_cadquery_code has returned, its value has a boolean success; if
\* the worker ran the code to the end without exception before the timeout, the
\* value is the worker's success result, whatever the size of the result; if the
\* worker was alive at the timeout, the value is the timeout failure; if the worker
\* crashed, the value is a failure; and the worker is not running.
C28_ExecutorReturns ==
    ex_pc = "returned" =>
        /\ ex_ret.success \in BOOLEAN
        /\ in_time => ex_ret = WorkerSuccess
        /\ timed_out => ex_ret = Failure("Execution timed out")
        /\ worker = "crashed" => ex_ret.success = FALSE
        /\ ~Alive(worker)

\* C29: a run of analyze_stream that gets to its loop makes at most
\* max_iterations LLM calls and ends with one COMPLETE event, its last event; an
\* exception in an iteration gives one ERROR event, after which no LLM call is made,
\* and no ERROR is yielded otherwise; a TOOL_CALL never follows a TOOL_CALL whose
\* TOOL_RESULT has not been yielded, and a TOOL_CALL is without TOOL_RESULT only when
\* its tool raised.  A run raises only before its loop, when initialize() or the
\* initial screenshot raises, and then it has made no LLM call and yields no COMPLETE.
C29_StreamEndsWithComplete ==
    /\ llm_calls <= max_iterations
    /\ ag_pc = "ended" =>
           /\ seen.complete = 1 /\ seen.last = "COMPLETE"
           /\ seen.error = (IF seen.raised THEN 1 ELSE 0)
           /\ seen.open_call => seen.raised
    /\ ~seen.after_complete
    /\ seen.complete > 0 => ag_pc = "ended"
    /\ seen.error > 0 => llm_calls = seen.calls_at_error
    /\ ~seen.two_calls
    /\ ag_pc = "raised" =>
           /\ ag_in \in {"no backend", "screenshot raises"}
           /\ llm_calls = 0
           /\ seen.complete = 0 /\ seen.error = 0

\* A run that reaches the iteration limit: ten LLM calls, then COMPLETE.
C29_Witness ==
    /\ ag_pc = "ended"
    /\ llm_calls = max_iterations
    /\ iteration = max_iterations
    /\ seen.error = 0
    /\ seen.last = "COMPLETE"

\* C29 as stated: every run ends with exactly one COMPLETE event as its last event.
C29_EveryRunCompletes ==
    ag_pc \in {"ended", "raised"} => (seen.complete = 1 /\ seen.last = "COMPLETE")

\* C30: every draft_angle that analyze_draft_angles reports lies in [0, 90] degrees,
\* for every face normal and both pull directions, and the recommendation of every
\* reported record is WARNING, CAUTION or OK, never CRITICAL.
C30_DraftAngleRange ==
    pc # "idle" =>
        \A pull \in {1, -1} :
            LET records == analyze_draft_angles(workplane, pull)
            IN  \A k \in DOMAIN records :
                    /\ records[k].draft_angle >= 0
                    /\ records[k].draft_angle <= 90000
                    /\ records[k].recommendation
                           \in {draft_recommendation(0), draft_recommendation(500),
                                draft_recommendation(1000)}
                    /\ records[k].recommendation # draft_recommendation(-1)

\* A part with a face whose normal points against the pull direction: its record
\* has a positive draft angle and recommendation OK; another record is a WARNING.
C30_Witness ==
    /\ pc = "done"
    /\ LET records == analyze_draft_angles(workplane, 1)
       IN  /\ \E k \in DOMAIN records :
                  /\ workplane.faces[records[k].face_id[2] + 1].dots[1] < 0
                  /\ records[k].draft_angle > 1000
                  /\ records[k].recommendation = "OK"
           /\ \E k \in DOMAIN records :
                  /\ records[k].draft_angle < 500
                  /\ records[k].recommendation = draft_recommendation(0)

====
